---- MODULE Spec2Model ----
(***************************************************************************)
(* Moon Lotto: the astronomical clock (tithi / nakshatra discretization    *)
(* and boundary search), the number generators (generateNumbers and        *)
(* generateMultiStrategy) and the prize evaluator (evaluatePrediction).    *)
(*                                                                         *)
(* The state machines of this module, one per component or library call:   *)
(*   SpecEval     one evaluatePrediction call after another                *)
(*   SpecMatch    one computeMatches call after another                    *)
(*   SpecAstro    getTithi / getNakshatra and the two next-change searches *)
(*   SpecGen      one generation call after another                        *)
(*   SpecDef      generation over game definitions outside the table       *)
(*   SpecRoot     digitalRoot                                              *)
(*   SpecProfile  computeScores over two windows of draws                  *)
(*   SpecIngest   ingestHistoricalDraws / ingestOfficialDraws on the store *)
(*   SpecLimit    concurrent checkRateLimit calls                          *)
(*   SpecBonus    generation over game definitions with bonus numbers      *)
(*   SpecSelect   selectCandidateForEvaluation beside candidate creation   *)
(*   SpecResult   concurrent requests to the scheduler result route        *)
(*   SpecRefresh  the result route beside evaluateCandidatesForDraw        *)
(***************************************************************************)
EXTENDS Integers, Sequences, FiniteSets, TLC

VARIABLES
    ev,     \* evaluator: the call being evaluated and its PrizeResult
    astro,  \* astronomical clock: the sky, the search in progress, its result
    gen,    \* generator: the call, the seeded generator's state, the result
    db,     \* the draw tables of the database and the last ingestion's report
    rl,     \* rate limiter: the module's two variables and the calls in flight
    track   \* track record: candidates, evaluations and the requests in flight

vars == <<ev, astro, gen, db, rl, track>>

(***************************************************************************)
(* Values shared by the components.                                        *)
(***************************************************************************)

\* JavaScript null and undefined where a number is expected.
Null == -1
Undefined == -2
\* A token of a numbers string that Number.parseInt cannot read (NaN).
NaNTok == -3

Range(s) == {s[i] : i \in DOMAIN s}

Min2(a, b) == IF a < b THEN a ELSE b

Abs(x) == IF x < 0 THEN -x ELSE x

\* Array.prototype.filter over a sequence.
RECURSIVE FilterSeq(_, _)
FilterSeq(s, keep) ==
    IF s = <<>> THEN <<>>
    ELSE IF Head(s) \in keep THEN <<Head(s)>> \o FilterSeq(Tail(s), keep)
         ELSE FilterSeq(Tail(s), keep)

\* reduce((a, b) => a + b, 0)
RECURSIVE SumSeq(_)
SumSeq(s) == IF s = <<>> THEN 0 ELSE Head(s) + SumSeq(Tail(s))

\* s.slice(0, n)
Slice(s, n) == SubSeq(s, 1, Min2(n, Len(s)))

\* The number of elements of s that fall in the set keep (filter(...).length).
CountIn(s, keep) == Len(FilterSeq(s, keep))

(***************************************************************************)
(* GAME_CONFIGS  (src/lib/generator/index.ts)                              *)
(***************************************************************************)

GameSlugs == {"daily-grand", "lotto-max", "lotto-649", "lottario"}

Config(slug, mainCount, mainMax, bonusCount, bonusMax) ==
    [slug |-> slug, mainCount |-> mainCount, mainMin |-> 1, mainMax |-> mainMax,
     bonusCount |-> bonusCount, bonusMin |-> 1, bonusMax |-> bonusMax,
     bonusFromSameDrum |-> FALSE]

\* bonusCount 0 stands for a configuration without bonus fields.
GAME_CONFIGS(gameSlug) ==
    CASE gameSlug = "daily-grand" -> Config("daily-grand", 5, 49, 1, 7)
      [] gameSlug = "lotto-max" -> Config("lotto-max", 7, 50, 0, 0)
      [] gameSlug = "lotto-649" -> Config("lotto-649", 6, 49, 0, 0)
      [] gameSlug = "lottario" -> Config("lottario", 6, 45, 0, 0)

\* GAME_CONFIGS[gameSlug]: the game's definition, or undefined.
NoDefinition == [defined |-> FALSE, config |-> Config("", 0, 0, 0, 0)]

Lookup(gameSlug) ==
    IF gameSlug \in GameSlugs THEN [defined |-> TRUE, config |-> GAME_CONFIGS(gameSlug)]
    ELSE NoDefinition

(***************************************************************************)
(* PRIZE EVALUATOR  (src/lib/evaluator/prizes.ts)                          *)
(***************************************************************************)

\* A tier label (PrizeShare.match, PrizeRule.category) by its lexical shape:
\*   FRAC     "k/n", "k/n + Bonus", "k/5 + GN"
\*   PLUS     "k+/n"
\*   MATCHOF  "Match k of n", "Match k of n + Bonus"
\*   MATCHBAD a label starting with "MATCH " that is not "MATCH k OF n"
\*   EARLY    a label containing "EARLY BIRD"
\*   EMPTY    the empty or all-blank label
\*   OTHER    any other text (for instance "GN Only")
\* bonus: the text contains "BONUS"; gn: the text contains "GN" or "GRAND".
Label(shape, k, n, bonus, gn) ==
    [shape |-> shape, k |-> k, n |-> n, bonus |-> bonus, gn |-> gn]

Frac(k, n) == Label("FRAC", k, n, FALSE, FALSE)
FracBonus(k, n) == Label("FRAC", k, n, TRUE, FALSE)
FracGN(k) == Label("FRAC", k, 5, FALSE, TRUE)
GNOnly == Label("OTHER", 0, 0, FALSE, TRUE)
NoCategory == Label("null", 0, 0, FALSE, FALSE)

\* A prize text by what parsePrizeValue looks at: whether the text is empty,
\* contains "FREE PLAY", contains "LIFE", and the number left after dropping
\* every character that is not a digit or a dot (Null when none is left).
Text(empty, free, life, num) ==
    [empty |-> empty, free |-> free, life |-> life, num |-> num]

Money(v) == Text(FALSE, FALSE, FALSE, v)
FreePlayText == Text(FALSE, TRUE, FALSE, Null)
LifeText(v) == Text(FALSE, FALSE, TRUE, v)
EmptyText == Text(TRUE, FALSE, FALSE, Null)
JunkText == Text(FALSE, FALSE, FALSE, Null)
NoText == Text(TRUE, FALSE, FALSE, Undefined)

Rule(m, b, g, cat, val, txt) ==
    [matchMain |-> m, matchBonus |-> b, matchGrand |-> g,
     category |-> cat, prizeValue |-> val, prizeText |-> txt]

\* The static tables. matchGrand is absent outside daily-grand, and
\* !!undefined is false.
PRIZE_TABLES(gameSlug) ==
    CASE gameSlug = "lotto-max" -> <<
           Rule(7, FALSE, FALSE, Frac(7, 7), 70000000, Money(70000000)),
           Rule(6, TRUE, FALSE, FracBonus(6, 7), 196159, Money(196159)),
           Rule(6, FALSE, FALSE, Frac(6, 7), 4440, Money(4440)),
           Rule(5, TRUE, FALSE, FracBonus(5, 7), 960, Money(960)),
           Rule(5, FALSE, FALSE, Frac(5, 7), 122, Money(122)),
           Rule(4, TRUE, FALSE, FracBonus(4, 7), 56, Money(56)),
           Rule(4, FALSE, FALSE, Frac(4, 7), 20, Money(20)),
           Rule(3, TRUE, FALSE, FracBonus(3, 7), 20, Money(20)),
           Rule(3, FALSE, FALSE, Frac(3, 7), 5, FreePlayText) >>
      [] gameSlug = "lotto-649" -> <<
           Rule(6, FALSE, FALSE, Frac(6, 6), 5000000, Money(5000000)),
           Rule(5, TRUE, FALSE, FracBonus(5, 6), 104177, Money(104177)),
           Rule(5, FALSE, FALSE, Frac(5, 6), 1042, Money(1042)),
           Rule(4, FALSE, FALSE, Frac(4, 6), 78, Money(78)),
           Rule(3, FALSE, FALSE, Frac(3, 6), 10, Money(10)),
           Rule(2, TRUE, FALSE, FracBonus(2, 6), 5, Money(5)),
           Rule(2, FALSE, FALSE, Frac(2, 6), 3, FreePlayText) >>
      [] gameSlug = "daily-grand" -> <<
           Rule(5, FALSE, TRUE, FracGN(5), Null, LifeText(1000)),
           Rule(5, FALSE, FALSE, Frac(5, 5), Null, LifeText(25000)),
           Rule(4, FALSE, TRUE, FracGN(4), 1000, Money(1000)),
           Rule(4, FALSE, FALSE, Frac(4, 5), 500, Money(500)),
           Rule(3, FALSE, TRUE, FracGN(3), 100, Money(100)),
           Rule(3, FALSE, FALSE, Frac(3, 5), 20, Money(20)),
           Rule(2, FALSE, TRUE, FracGN(2), 10, Money(10)),
           Rule(1, FALSE, TRUE, FracGN(1), 4, Money(4)),
           Rule(0, FALSE, TRUE, GNOnly, 3, FreePlayText) >>
      [] gameSlug = "lottario" -> <<
           Rule(6, FALSE, FALSE, Frac(6, 6), 250000, Money(250000)),
           Rule(5, TRUE, FALSE, FracBonus(5, 6), 10000, Money(10000)),
           Rule(5, FALSE, FALSE, Frac(5, 6), 500, Money(500)),
           Rule(4, TRUE, FALSE, FracBonus(4, 6), 30, Money(30)),
           Rule(4, FALSE, FALSE, Frac(4, 6), 10, Money(10)),
           Rule(3, TRUE, FALSE, FracBonus(3, 6), 5, Money(5)),
           Rule(3, FALSE, FALSE, Frac(3, 6), 4, Money(4)),
           Rule(0, TRUE, FALSE, FracBonus(0, 6), 1, FreePlayText) >>
      [] OTHER -> <<>>

\* PrizeShare.amount is a string or an array of language-tagged texts.
AmountStr(t) == [isArray |-> FALSE, items |-> <<[lang |-> "en", text |-> t]>>]
AmountArr(items) == [isArray |-> TRUE, items |-> items]

normalizeAmountText(amount) ==
    IF amount.isArray
    THEN LET en == {i \in DOMAIN amount.items : amount.items[i].lang = "en"}
         IN  IF en # {} THEN amount.items[CHOOSE i \in en : \A j \in en : i <= j].text
             ELSE IF amount.items # <<>> THEN amount.items[1].text
             ELSE EmptyText
    ELSE amount.items[1].text

\* gameCost is a number, or Undefined when the caller passes none.
parsePrizeValue(amountText, gameCost) ==
    IF amountText.empty THEN Null
    ELSE IF amountText.free THEN (IF gameCost # Undefined THEN gameCost ELSE 0)
    ELSE IF amountText.life THEN Null
    ELSE amountText.num

NoMatch == [ok |-> FALSE, matchMain |-> 0, matchBonus |-> FALSE, matchGrand |-> FALSE]
Parsed(m, b, g) == [ok |-> TRUE, matchMain |-> m, matchBonus |-> b, matchGrand |-> g]

\* /(\d)\s*\/\s*5/ reads the last digit of k, and any n that starts with 5.
parseMatchDescriptor(gameSlug, matchText) ==
    IF matchText.shape = "EMPTY" THEN NoMatch
    ELSE IF matchText.shape = "EARLY" THEN NoMatch
    ELSE IF gameSlug = "daily-grand" THEN
        IF matchText.shape = "FRAC" /\ (matchText.n = 5 \/ matchText.n \div 10 = 5)
        THEN Parsed(matchText.k % 10, FALSE, matchText.gn)
        ELSE NoMatch
    ELSE IF matchText.shape \in {"MATCHOF", "MATCHBAD"} THEN
        IF matchText.shape = "MATCHOF"
        THEN Parsed(matchText.k, matchText.bonus, FALSE)
        ELSE NoMatch
    ELSE IF matchText.shape = "PLUS" THEN Parsed(matchText.k, TRUE, FALSE)
    ELSE IF matchText.shape = "FRAC" THEN Parsed(matchText.k, matchText.bonus, FALSE)
    ELSE NoMatch

RECURSIVE buildPrizeRules(_, _, _)
buildPrizeRules(gameSlug, prizeShares, gameCost) ==
    IF prizeShares = <<>> THEN <<>>
    ELSE LET share == Head(prizeShares)
             parsed == parseMatchDescriptor(gameSlug, share.match)
             prizeText == normalizeAmountText(share.amount)
             rest == buildPrizeRules(gameSlug, Tail(prizeShares), gameCost)
         IN  IF ~parsed.ok THEN rest
             ELSE <<Rule(parsed.matchMain, parsed.matchBonus, parsed.matchGrand,
                         share.match, parsePrizeValue(prizeText, gameCost),
                         prizeText)>> \o rest

\* null for a game without a table; the empty sequence stands for null, which
\* evaluatePrediction treats alike (!rules || rules.length === 0).
getFallbackRules(gameSlug, gameCost) ==
    LET base == PRIZE_TABLES(gameSlug)
    IN  [i \in DOMAIN base |->
            IF base[i].prizeText.free
            THEN [base[i] EXCEPT !.prizeValue =
                     IF gameCost # Undefined THEN gameCost ELSE base[i].prizeValue]
            ELSE base[i]]

\* A numbers string: JSON text of an array ("[1,2,3]"), or comma-separated
\* text ("1, 2, x") that JSON.parse rejects and the fallback splits, dropping
\* what parseInt cannot read.
NumString(fmt, toks) == [fmt |-> fmt, toks |-> toks]
NullString == NumString("null", <<>>)

parseNumbers(nums) ==
    IF nums.fmt = "json" THEN nums.toks
    ELSE FilterSeq(nums.toks, Int \ {NaNTok})

\* s[0] of a JavaScript array.
First(s) == IF s = <<>> THEN Undefined ELSE s[1]

\* The rules evaluatePrediction resolves (line 206-208).
ResolveRules(gameSlug, prizeShares, gameCost) ==
    IF prizeShares # <<>>
    THEN buildPrizeRules(gameSlug, prizeShares, gameCost)
    ELSE getFallbackRules(gameSlug, gameCost)

\* matchesRule with the main-match count read as a threshold.
matchesRule_AtLeast(gameSlug, rule, matchMainCount, matchBonusCount, matchGrandCount) ==
    IF gameSlug = "daily-grand"
    THEN matchMainCount >= rule.matchMain /\ (rule.matchGrand <=> (matchGrandCount > 0))
    ELSE matchMainCount >= rule.matchMain /\ (rule.matchBonus <=> (matchBonusCount > 0))

\* Whether a rule is met by the match counts (lines 243-257).
matchesRule(gameSlug, rule, matchMainCount, matchBonusCount, matchGrandCount) ==
    IF gameSlug = "daily-grand"
    THEN matchMainCount = rule.matchMain /\ (rule.matchGrand <=> (matchGrandCount > 0))
    ELSE matchMainCount = rule.matchMain /\ (rule.matchBonus <=> (matchBonusCount > 0))

\* matchCounts with the bonus ball also counted among the main matches.
matchCounts_BonusAsMain(gameSlug, candidateNumbers, candidateBonus, officialNumbers, officialBonus) ==
    LET userNums == parseNumbers(candidateNumbers)
        drawNums == parseNumbers(officialNumbers)
        drawBonus == IF officialBonus.fmt # "null"
                     THEN First(parseNumbers(officialBonus)) ELSE Null
        userGrand == IF candidateBonus.fmt # "null"
                     THEN First(parseNumbers(candidateBonus)) ELSE Null
    IN  [main |-> CountIn(userNums, Range(drawNums) \cup {drawBonus}),
         bonus |-> IF gameSlug # "daily-grand" /\ drawBonus # Null
                      /\ drawBonus \in Range(userNums)
                   THEN 1 ELSE 0,
         grand |-> IF gameSlug = "daily-grand" /\ userGrand # Null
                      /\ drawBonus # Null /\ userGrand = drawBonus
                   THEN 1 ELSE 0]

\* The match counts (lines 212-239). officialBonus and candidateBonus are
\* NullString when the caller passes null.
matchCounts(gameSlug, candidateNumbers, candidateBonus, officialNumbers, officialBonus) ==
    LET userNums == parseNumbers(candidateNumbers)
        drawNums == parseNumbers(officialNumbers)
        drawBonus == IF officialBonus.fmt # "null"
                     THEN First(parseNumbers(officialBonus)) ELSE Null
        userGrand == IF candidateBonus.fmt # "null"
                     THEN First(parseNumbers(candidateBonus)) ELSE Null
    IN  [main |-> CountIn(userNums, Range(drawNums)),
         bonus |-> IF gameSlug # "daily-grand" /\ drawBonus # Null
                      /\ drawBonus \in Range(userNums)
                   THEN 1 ELSE 0,
         grand |-> IF gameSlug = "daily-grand" /\ userGrand # Null
                      /\ drawBonus # Null /\ userGrand = drawBonus
                   THEN 1 ELSE 0]

NullResult ==
    [isNull |-> TRUE, category |-> NoCategory, prizeValue |-> Null,
     prizeText |-> NoText, matchCountMain |-> 0, matchCountBonus |-> 0,
     matchCountGrand |-> 0]

evaluatePrediction(gameSlug, candidateNumbers, candidateBonus, officialNumbers, officialBonus, prizeShares, gameCost) ==
    LET rules == ResolveRules(gameSlug, prizeShares, gameCost)
        mc == matchCounts(gameSlug, candidateNumbers, candidateBonus,
                          officialNumbers, officialBonus)
        hits == {i \in DOMAIN rules :
                    matchesRule(gameSlug, rules[i], mc.main, mc.bonus, mc.grand)}
    IN  IF rules = <<>> THEN NullResult
        ELSE IF hits # {}
        THEN LET rule == rules[CHOOSE i \in hits : \A j \in hits : i <= j]
             IN  [isNull |-> FALSE, category |-> rule.category,
                  prizeValue |-> rule.prizeValue, prizeText |-> rule.prizeText,
                  matchCountMain |-> mc.main, matchCountBonus |-> mc.bonus,
                  matchCountGrand |-> mc.grand]
        ELSE [isNull |-> FALSE, category |-> NoCategory, prizeValue |-> 0,
              prizeText |-> NoText, matchCountMain |-> mc.main,
              matchCountBonus |-> mc.bonus, matchCountGrand |-> mc.grand]

(***************************************************************************)
(* The evaluator's state machine: one evaluatePrediction call at a time.   *)
(* The inputs are drawn from bounded families of draws, candidates and     *)
(* prize-share lists.                                                      *)
(***************************************************************************)

\* The longest prize-share list enumerated label by label.
MaxShares == 2
\* The largest grand number tried (the drum holds 1..bonusMax).
MaxGrand == 3

\* count numbers from start in steps of stride.
NumRun(start, count, stride) == [i \in 1..count |-> start + (i - 1) * stride]

EvalIdle ==
    [pc |-> "idle", gameSlug |-> "none", candidateNumbers |-> NullString,
     candidateBonus |-> NullString, officialNumbers |-> NullString,
     officialBonus |-> NullString, prizeShares |-> <<>>, gameCost |-> Undefined,
     out |-> NullResult]

\* Candidates: a run of mainCount numbers from 1, in JSON, or as
\* comma-separated text with one unreadable token.
EvalCandidates(cfg) ==
    {NumString("json", NumRun(1, cfg.mainCount, st)) : st \in 1..2}
    \cup {NumString("csv", NumRun(1, cfg.mainCount, 1) \o <<NaNTok>>)}

\* Official draws: mainCount consecutive numbers, overlapping the candidate
\* in 0..mainCount numbers.
EvalDraws(cfg) ==
    {NumString("json", NumRun(s, cfg.mainCount, 1)) : s \in 1..(cfg.mainCount + 1)}

\* The official bonus. Same-drum games draw the bonus ball from the balls
\* left after the main numbers; daily-grand draws the grand number from its
\* own drum.
EvalOfficialBonus(cfg, draw) ==
    {NullString}
    \cup IF cfg.slug = "daily-grand"
         THEN {NumString("json", <<g>>) : g \in 1..MaxGrand}
         ELSE {NumString("json", <<b>>) :
                  b \in (1..(2 * cfg.mainCount + 1)) \ Range(draw.toks)}

EvalCandidateBonus(cfg) ==
    IF cfg.slug = "daily-grand"
    THEN {NullString} \cup {NumString("json", <<g>>) : g \in 1..MaxGrand}
    ELSE {NullString}

Share(match, text) == [match |-> match, amount |-> AmountStr(text)]

\* Sample tiers of a dynamic prize-share list.
ShareSamples(cfg) ==
    {Share(Label("EARLY", 0, 0, FALSE, FALSE), Money(25000)),
     Share(Frac(cfg.mainCount - 1, cfg.mainCount), Money(900)),
     Share(Frac(cfg.mainCount - 1, cfg.mainCount), Money(77)),
     Share(Label("FRAC", cfg.mainCount - 1, cfg.mainCount, TRUE, TRUE), LifeText(1000))}

\* A list with one label of every other shape.
MixedShapes(cfg) ==
    <<Share(Label("EMPTY", 0, 0, FALSE, FALSE), Money(1)),
      Share(Label("MATCHBAD", 0, 0, FALSE, FALSE), Money(2)),
      Share(Label("OTHER", 0, 0, FALSE, FALSE), JunkText),
      Share(Label("PLUS", cfg.mainCount - 2, cfg.mainCount, FALSE, FALSE), FreePlayText),
      Share(Label("MATCHOF", cfg.mainCount - 3, cfg.mainCount, TRUE, FALSE), Money(40)),
      Share(Label("MATCHOF", cfg.mainCount - 3, cfg.mainCount, FALSE, FALSE), EmptyText),
      [match |-> Frac(cfg.mainCount, 5),
       amount |-> AmountArr(<<[lang |-> "fr", text |-> Money(8)],
                              [lang |-> "en", text |-> Money(9)]>>)]>>

RECURSIVE SeqsUpTo(_, _)
SeqsUpTo(S, n) ==
    IF n = 0 THEN {<<>>}
    ELSE LET shorter == SeqsUpTo(S, n - 1)
         IN  shorter \cup {Append(q, x) : q \in shorter, x \in S}

\* The static table as the feed would publish it.
DynamicFromStatic(gameSlug) ==
    LET base == PRIZE_TABLES(gameSlug)
    IN  [i \in DOMAIN base |-> Share(base[i].category, base[i].prizeText)]

EvalShareLists(cfg) ==
    SeqsUpTo(ShareSamples(cfg), MaxShares)
    \cup {DynamicFromStatic(cfg.slug), MixedShapes(cfg)}

Evaluate ==
    /\ ev.pc = "idle"
    /\ \E gameSlug \in GameSlugs :
         LET cfg == GAME_CONFIGS(gameSlug)
         IN  \E cand \in EvalCandidates(cfg), draw \in EvalDraws(cfg),
                gameCost \in {Undefined, 3}, cb \in EvalCandidateBonus(cfg) :
               \E ob \in EvalOfficialBonus(cfg, draw), shares \in EvalShareLists(cfg) :
                 ev' = [pc |-> "done", gameSlug |-> gameSlug,
                        candidateNumbers |-> cand, candidateBonus |-> cb,
                        officialNumbers |-> draw, officialBonus |-> ob,
                        prizeShares |-> shares, gameCost |-> gameCost,
                        out |-> evaluatePrediction(gameSlug, cand, cb, draw, ob,
                                                   shares, gameCost)]
    /\ UNCHANGED <<astro, gen, db, rl, track>>

\* The caller takes the result; the next call starts from scratch.
EvalReturn ==
    /\ ev.pc = "done"
    /\ ev' = EvalIdle
    /\ UNCHANGED <<astro, gen, db, rl, track>>

(***************************************************************************)
(* MATCHING ENGINE  (computeMatches of src/lib/evaluation/index.ts)        *)
(*                                                                         *)
(* A category is the list of its words: 'Prize Winner + Grand' is          *)
(* <<"Prize", "Winner", "+", "Grand">>.                                    *)
(***************************************************************************)

\* An optional number[] argument: not given, or a list.
NoList == [given |-> FALSE, list |-> <<>>]
List(list) == [given |-> TRUE, list |-> list]

\* The category without the ' + Grand' suffix.
matchCategory_NoSuffix(mainMatches, grandMatches) ==
    IF mainMatches = 0 THEN <<"No", "Match">>
    ELSE IF mainMatches >= 6 THEN <<"Jackpot", "Range">>
    ELSE IF mainMatches >= 4 THEN <<"Prize", "Winner">>
    ELSE <<ToString(mainMatches), "Match">>

\* The category of a result (lines 48-59).
matchCategory(mainMatches, grandMatches) ==
    (IF mainMatches = 0 THEN <<"No", "Match">>
     ELSE IF mainMatches >= 6 THEN <<"Jackpot", "Range">>
     ELSE IF mainMatches >= 4 THEN <<"Prize", "Winner">>
     ELSE <<ToString(mainMatches), "Match">>)
        \o (IF grandMatches > 0 THEN <<"+", "Grand">> ELSE <<>>)

computeMatches(generatedNumbers, officialNumbers, generatedBonus, officialBonus) ==
    LET mainMatches == CountIn(generatedNumbers, Range(officialNumbers))
        official == officialBonus.given /\ Len(officialBonus.list) > 0
        separateDrum == generatedBonus.given /\ Len(generatedBonus.list) > 0
        grandMatches == IF official /\ separateDrum
                        THEN CountIn(generatedBonus.list, Range(officialBonus.list))
                        ELSE 0
        bonusMatches == IF official /\ ~separateDrum
                        THEN CountIn(generatedNumbers, Range(officialBonus.list))
                        ELSE 0
    IN  [mainMatches |-> mainMatches, bonusMatches |-> bonusMatches,
         grandMatches |-> grandMatches,
         category |-> matchCategory(mainMatches, grandMatches)]

\* The largest first number of an official draw.
MaxMatchStart == 8

\* Picks of 0, 3 and 7 numbers from 1 on; official draws of 0 and 7
\* consecutive numbers; bonus lists absent, empty, or of one or two numbers.
MatchPicks == {NumRun(1, count, 1) : count \in {0, 3, 7}}
MatchDraws == {<<>>} \cup {NumRun(start, 7, 1) : start \in 1..MaxMatchStart}
MatchPickBonus == {NoList, List(<<>>), List(<<1>>), List(<<9>>)}
MatchDrawBonus == {NoList, List(<<>>), List(<<1>>), List(<<9>>), List(<<1, 9>>)}

ComputeMatches ==
    /\ ev.pc = "idle"
    /\ \E generatedNumbers \in MatchPicks, officialNumbers \in MatchDraws :
         \E generatedBonus \in MatchPickBonus, officialBonus \in MatchDrawBonus :
           ev' = [pc |-> "done", api |-> "computeMatches",
                  generatedNumbers |-> generatedNumbers,
                  officialNumbers |-> officialNumbers,
                  generatedBonus |-> generatedBonus, officialBonus |-> officialBonus,
                  out |-> computeMatches(generatedNumbers, officialNumbers,
                                         generatedBonus, officialBonus)]
    /\ UNCHANGED <<astro, gen, db, rl, track>>

MatchNext == ComputeMatches \/ EvalReturn

(***************************************************************************)
(* DRAW INGESTION  (ingestHistoricalDraws and ingestOfficialDraws of the   *)
(* results scraper, src/lib/dashboard/audit-tests.ts lines 836-932)        *)
(*                                                                         *)
(* A table is the list of its rows in the order they were created.  The    *)
(* database is taken to answer every query: upsert does not throw.         *)
(***************************************************************************)

\* prisma.game: the slugs the database has a game for, and the game's id.
DbGames == {"lotto-max", "daily-grand"}
GameId(slug) == "id-" \o slug

\* bonus?: number[] and prizeShares?: PrizeShare[], absent or a list.
ParsedDraw(gameSlug, drawAt, numbers, bonus, prizeShares) ==
    [gameSlug |-> gameSlug, drawAt |-> drawAt, numbers |-> numbers, bonus |-> bonus,
     prizeShares |-> prizeShares]

\* JSON.stringify of a number[] and of an optional list (null when the draw
\* has none).
StringifyNumbers(numbers) == NumString("json", numbers)
StringifyOptional(optional) ==
    IF optional.given THEN NumString("json", optional.list) ELSE NullString

\* The rows of `table` under the compound key gameId_drawAt.
RowsAt(table, gameId, drawAt) ==
    {i \in DOMAIN table : table[i].gameId = gameId /\ table[i].drawAt = drawAt}

\* upsert that creates a row whether or not one is stored under the key.
upsert_CreateOnly(table, gameId, drawAt, update, create) == Append(table, create)

\* prisma.<table>.upsert({ where: { gameId_drawAt }, update, create })
upsert(table, gameId, drawAt, update, create) ==
    IF RowsAt(table, gameId, drawAt) # {}
    THEN [i \in DOMAIN table |->
             IF i \in RowsAt(table, gameId, drawAt)
             THEN [f \in DOMAIN table[i] |->
                      IF f \in DOMAIN update THEN update[f] ELSE table[i][f]]
             ELSE table[i]]
    ELSE Append(table, create)

\* The data written for a draw: numbers and bonus, and prizeData for an
\* official draw.
DrawData(draw, official) ==
    IF official
    THEN [numbers |-> StringifyNumbers(draw.numbers),
          bonus |-> StringifyOptional(draw.bonus),
          prizeData |-> StringifyOptional(draw.prizeShares)]
    ELSE [numbers |-> StringifyNumbers(draw.numbers),
          bonus |-> StringifyOptional(draw.bonus)]

NewRow(draw, official) ==
    IF official
    THEN [gameId |-> GameId(draw.gameSlug), drawAt |-> draw.drawAt,
          numbers |-> StringifyNumbers(draw.numbers),
          bonus |-> StringifyOptional(draw.bonus),
          prizeData |-> StringifyOptional(draw.prizeShares)]
    ELSE [gameId |-> GameId(draw.gameSlug), drawAt |-> draw.drawAt,
          numbers |-> StringifyNumbers(draw.numbers),
          bonus |-> StringifyOptional(draw.bonus)]

\* The for loop of an ingestion over the draws that are left.
RECURSIVE IngestLoop(_, _, _)
IngestLoop(report, draws, official) ==
    IF draws = <<>> THEN report
    ELSE IF Head(draws).gameSlug \notin DbGames
    THEN IngestLoop([report EXCEPT
                        !.errors = Append(@, <<"Game not found", Head(draws).gameSlug>>)],
                    Tail(draws), official)
    ELSE IngestLoop([report EXCEPT
                        !.table = upsert(@, GameId(Head(draws).gameSlug), Head(draws).drawAt,
                                         DrawData(Head(draws), official),
                                         NewRow(Head(draws), official)),
                        !.inserted = @ + 1],
                    Tail(draws), official)

\* An ingestion of `draws` into `table`: the table it leaves and its report.
\* db.last is the report together with the draws given and the table as it
\* was before; its api is "none" when no ingestion is in progress.
Ingest(table, draws, official) ==
    IngestLoop([table |-> table, inserted |-> 0, skipped |-> 0, errors |-> <<>>],
               draws, official)

DbEmpty ==
    [historicalDraw |-> <<>>, officialDraw |-> <<>>,
     last |-> [api |-> "none", draws |-> <<>>, before |-> <<>>,
               inserted |-> 0, skipped |-> 0, errors |-> <<>>]]

\* The draws the feed delivers: two readings of lotto-max at time 1 (the
\* second with bonus and prize data), daily-grand at the same time, and a
\* draw of a game the database does not hold.
FeedDraws ==
    {ParsedDraw("lotto-max", 1, <<1, 2>>, NoList, NoList),
     ParsedDraw("lotto-max", 1, <<3, 4>>, List(<<7>>), List(<<77>>)),
     ParsedDraw("daily-grand", 1, <<1, 2>>, List(<<5>>), NoList),
     ParsedDraw("keno", 1, <<1, 2>>, NoList, NoList)}

\* The longest list of draws given to one ingestion.
MaxBatch == 2

Batches == SeqsUpTo(FeedDraws, MaxBatch)

IngestHistoricalDraws ==
    /\ db.last.api = "none"
    /\ \E draws \in Batches :
         LET report == Ingest(db.historicalDraw, draws, FALSE)
         IN  db' = [db EXCEPT !.historicalDraw = report.table,
                              !.last = [api |-> "ingestHistoricalDraws", draws |-> draws,
                                        before |-> db.historicalDraw,
                                        inserted |-> report.inserted,
                                        skipped |-> report.skipped,
                                        errors |-> report.errors]]
    /\ UNCHANGED <<ev, astro, gen, rl, track>>

IngestOfficialDraws ==
    /\ db.last.api = "none"
    /\ \E draws \in Batches :
         LET report == Ingest(db.officialDraw, draws, TRUE)
         IN  db' = [db EXCEPT !.officialDraw = report.table,
                              !.last = [api |-> "ingestOfficialDraws", draws |-> draws,
                                        before |-> db.officialDraw,
                                        inserted |-> report.inserted,
                                        skipped |-> report.skipped,
                                        errors |-> report.errors]]
    /\ UNCHANGED <<ev, astro, gen, rl, track>>

\* The caller has the report; the tables stay as the ingestion left them.
IngestReturn ==
    /\ db.last.api # "none"
    /\ db' = [db EXCEPT !.last = DbEmpty.last]
    /\ UNCHANGED <<ev, astro, gen, rl, track>>

IngestNext == IngestHistoricalDraws \/ IngestOfficialDraws \/ IngestReturn

\* No call of checkRateLimit has been made and none is modelled.
RlUnused == [pc |-> "unused"]

\* No request on the track record has been made and none is modelled.
TrackUnused == [pc |-> "unused"]

GenIdle == [pc |-> "idle"]

EvalInit ==
    ev = EvalIdle /\ astro = [pc |-> "idle"] /\ gen = GenIdle /\ db = DbEmpty /\ rl = RlUnused
    /\ track = TrackUnused

EvalNext == Evaluate \/ EvalReturn

SpecEval == EvalInit /\ [][EvalNext]_vars

SpecMatch == EvalInit /\ [][MatchNext]_vars

SpecIngest == EvalInit /\ [][IngestNext]_vars

(***************************************************************************)
(* RATE LIMITING  (src/lib/rate-limit.ts)                                  *)
(*                                                                         *)
(* rl.module holds the two module variables of rate-limit.ts, with the     *)
(* number of times `new Ratelimit` was reached; rl.env is the process      *)
(* environment; rl.calls holds, per client identifier, the call of         *)
(* checkRateLimit in flight. The Upstash limiter is external: limit()      *)
(* resolves with a verdict of its own choosing, or rejects.                *)
(***************************************************************************)

\* Both UPSTASH_REDIS_REST_URL and UPSTASH_REDIS_REST_TOKEN are set, or not;
\* with them set, Redis.fromEnv() / new Ratelimit may throw.
Environments ==
    { [configured |-> FALSE, ctorThrows |-> FALSE],
      [configured |-> TRUE, ctorThrows |-> FALSE],
      [configured |-> TRUE, ctorThrows |-> TRUE] }

ModuleLoaded == [rateLimiter |-> FALSE, rateLimiterInitialized |-> FALSE, constructions |-> 0]

\* A getRateLimiter that forgets it has run before.
getRateLimiter_Eager(module, env) ==
    IF env.configured
    THEN [rateLimiter |-> ~env.ctorThrows, rateLimiterInitialized |-> TRUE,
          constructions |-> module.constructions + 1]
    ELSE [module EXCEPT !.rateLimiterInitialized = TRUE]

\* The module's variables after getRateLimiter(); it returns
\* the rateLimiter it leaves.
getRateLimiter(module, env) ==
    IF module.rateLimiterInitialized THEN module
    ELSE IF env.configured
    THEN [rateLimiter |-> ~env.ctorThrows, rateLimiterInitialized |-> TRUE,
          constructions |-> module.constructions + 1]
    ELSE [module EXCEPT !.rateLimiterInitialized = TRUE]

Allowed == [success |-> TRUE, remaining |-> 999]

\* What limit() may resolve with under slidingWindow(30, "1 m").
LimitResults ==
    { [success |-> TRUE, remaining |-> 29],
      [success |-> TRUE, remaining |-> 0],
      [success |-> FALSE, remaining |-> 0] }

Identifiers == {"anonymous", "203.0.113.7"}

NoCall == [pc |-> "idle"]

MaxCalls == 4

RlLoaded(env) ==
    [env |-> env, module |-> ModuleLoaded, calls |-> [i \in Identifiers |-> NoCall], started |-> 0]

CallAfterLimiter(module) ==
    IF module.rateLimiter
    THEN [pc |-> "awaiting"]
    ELSE [pc |-> "returned", limit |-> "skipped", result |-> Allowed]

\* checkRateLimit(identifier) up to its first await: getRateLimiter() runs to
\* completion, and without a limiter the call returns at once.
CheckRateLimit ==
    /\ rl.started < MaxCalls
    /\ \E identifier \in Identifiers :
        /\ rl.calls[identifier].pc = "idle"
        /\ rl' = [rl EXCEPT !.module = getRateLimiter(rl.module, rl.env),
                            !.calls[identifier] = CallAfterLimiter(getRateLimiter(rl.module, rl.env)),
                            !.started = rl.started + 1]
    /\ UNCHANGED <<ev, astro, gen, db, track>>

\* limiter.limit(identifier) resolves.
LimitResolves ==
    /\ \E identifier \in Identifiers, result \in LimitResults :
        /\ rl.calls[identifier].pc = "awaiting"
        /\ rl' = [rl EXCEPT !.calls[identifier] =
                     [pc |-> "returned",
                      limit |-> IF result.success THEN "allowed" ELSE "denied",
                      result |-> [success |-> result.success, remaining |-> result.remaining]]]
    /\ UNCHANGED <<ev, astro, gen, db, track>>

\* limiter.limit(identifier) rejects (a Redis error).
LimitRejects ==
    /\ \E identifier \in Identifiers :
        /\ rl.calls[identifier].pc = "awaiting"
        /\ rl' = [rl EXCEPT !.calls[identifier] =
                     [pc |-> "returned", limit |-> "threw", result |-> Allowed]]
    /\ UNCHANGED <<ev, astro, gen, db, track>>

\* The route handler has the verdict.
LimitReturn ==
    /\ \E identifier \in Identifiers :
        /\ rl.calls[identifier].pc = "returned"
        /\ rl' = [rl EXCEPT !.calls[identifier] = NoCall]
    /\ UNCHANGED <<ev, astro, gen, db, track>>

LimitInit ==
    /\ ev = EvalIdle /\ astro = [pc |-> "idle"] /\ gen = GenIdle /\ db = DbEmpty
    /\ track = TrackUnused
    /\ \E env \in Environments : rl = RlLoaded(env)

LimitNext == CheckRateLimit \/ LimitResolves \/ LimitRejects \/ LimitReturn

SpecLimit == LimitInit /\ [][LimitNext]_vars

(***************************************************************************)
(* TRACK RECORD  (selectCandidateForEvaluation, src/lib/evaluation/        *)
(* index.ts; the scheduler's generation and result routes; the history     *)
(* refresh route)                                                          *)
(*                                                                         *)
(* The GeneratedCandidate and Evaluation tables are the lists of their     *)
(* rows in the order they were created; a row's id is its place in the     *)
(* list, and createdAt grows with it.  Every await of a handler is a step  *)
(* of its own, so that other requests run between two queries.  Instants   *)
(* are whole hours UTC.                                                     *)
(***************************************************************************)

Strategies == {"TITHI", "NAKSHATRA"}

\* Draws at 22:00 Toronto of two consecutive days (03:00 UTC of the next).
DrawTimes == {27, 51}

\* The most rows the GeneratedCandidate table gets.
MaxCandidates == 2

\* The rows prisma.generatedCandidate.create writes for lotto-max: the
\* strategy, the draw the numbers are meant for, checkEligibility's verdict
\* and the numbers of the strategy.
CandidateRows ==
    {[gameId |-> GameId("lotto-max"), strategy |-> strategy,
      intendedDrawAt |-> drawAt, eligible |-> eligible,
      numbers |-> StringifyNumbers(IF strategy = "TITHI" THEN <<1, 2, 3>>
                                   ELSE <<3, 4, 5>>),
      bonusNumbers |-> NullString] :
        strategy \in Strategies, drawAt \in DrawTimes, eligible \in BOOLEAN}

\* where: { gameId, intendedDrawAt: drawAt, strategy } and, for the first
\* query, eligible: true.
SelectWhere(table, gameId, drawAt, strategy, eligibleOnly) ==
    {i \in DOMAIN table :
        /\ table[i].gameId = gameId
        /\ table[i].intendedDrawAt = drawAt
        /\ table[i].strategy = strategy
        /\ (eligibleOnly => table[i].eligible)}

\* orderBy: { createdAt: 'asc' }, take: 1.
TakeLatest_Oldest(hits) ==
    IF hits = {} THEN 0 ELSE CHOOSE i \in hits : \A j \in hits : i <= j

\* orderBy: { createdAt: 'desc' }, take: 1: the id of the row found, 0 when
\* the list is empty.
TakeLatest(hits) ==
    IF hits = {} THEN 0 ELSE CHOOSE i \in hits : \A j \in hits : j <= i

NoSelect == [pc |-> "idle"]

\* The return values of selectCandidateForEvaluation.
Selected(candidateId) ==
    [isNull |-> FALSE, candidateId |-> candidateId, fallbackReason |-> "none"]
SelectedFallback(candidateId) ==
    [isNull |-> FALSE, candidateId |-> candidateId,
     fallbackReason |-> "No eligible candidates - using latest ineligible"]
SelectedNull == [isNull |-> TRUE, candidateId |-> 0, fallbackReason |-> "none"]

\* The requests the scheduler result route handles at a time.
Requests == {1, 2}

NoRequest == [pc |-> "idle"]

\* The compound unique keys of the Evaluation table: createEvaluation names
\* officialDrawId_strategy (the one the migration creates), the refresh
\* route officialDrawId_candidateId; a build has one of them or both.
Schemas ==
    {{"officialDrawId_strategy"}, {"officialDrawId_candidateId"},
     {"officialDrawId_strategy", "officialDrawId_candidateId"}}

TrackEmpty ==
    [candidate |-> <<>>, evaluation |-> <<>>, select |-> NoSelect,
     request |-> [r \in Requests |-> NoRequest], refresh |-> NoRequest,
     schema |-> {"officialDrawId_strategy", "officialDrawId_candidateId"}]

\* The generation route stores a candidate.
CreateCandidate ==
    /\ Len(track.candidate) < MaxCandidates
    /\ \E row \in CandidateRows :
         track' = [track EXCEPT !.candidate = Append(@, row)]
    /\ UNCHANGED <<ev, astro, gen, db, rl>>

\* selectCandidateForEvaluation up to the end of its first query.  `first`
\* is the number of rows the table had when the query ran.
SelectCandidate ==
    /\ track.select.pc = "idle"
    /\ \E drawAt \in DrawTimes, strategy \in Strategies :
         LET candidates == TakeLatest(SelectWhere(track.candidate, GameId("lotto-max"),
                                                  drawAt, strategy, TRUE))
             call == [gameId |-> GameId("lotto-max"), drawAt |-> drawAt,
                      strategy |-> strategy, first |-> Len(track.candidate),
                      second |-> 0]
         IN  track' = [track EXCEPT !.select =
                 IF candidates # 0
                 THEN [pc |-> "returned", call |-> call, result |-> Selected(candidates)]
                 ELSE [pc |-> "fallback", call |-> call, result |-> SelectedNull]]
    /\ UNCHANGED <<ev, astro, gen, db, rl>>

\* The fallback query and the return that follows it.
SelectFallback ==
    /\ track.select.pc = "fallback"
    /\ LET call == track.select.call
           fallbackCandidates ==
               TakeLatest(SelectWhere(track.candidate, call.gameId, call.drawAt,
                                      call.strategy, FALSE))
       IN  track' = [track EXCEPT !.select =
               [pc |-> "returned",
                call |-> [call EXCEPT !.second = Len(track.candidate)],
                result |-> IF fallbackCandidates # 0
                           THEN SelectedFallback(fallbackCandidates)
                           ELSE SelectedNull]]
    /\ UNCHANGED <<ev, astro, gen, db, rl>>

\* processOfficialDraw has the selection.
SelectReturn ==
    /\ track.select.pc = "returned"
    /\ track' = [track EXCEPT !.select = NoSelect]
    /\ UNCHANGED <<ev, astro, gen, db, rl>>

SelectInit ==
    /\ ev = EvalIdle /\ astro = [pc |-> "idle"] /\ gen = GenIdle /\ db = DbEmpty
    /\ rl = RlUnused /\ track = TrackEmpty

SelectNext == CreateCandidate \/ SelectCandidate \/ SelectFallback \/ SelectReturn

SpecSelect == SelectInit /\ [][SelectNext]_vars

(***************************************************************************)
(* The scheduler result route (POST of src/app/api/scheduler/result/       *)
(* route.ts) and evaluateCandidatesForDraw of the history refresh route.   *)
(* An OfficialDraw's id is its place in db.officialDraw.                   *)
(***************************************************************************)

\* The draws of lotto-max the scraper delivers, one per draw time.
ResultFeed ==
    {ParsedDraw("lotto-max", 27, <<1, 2, 3>>, NoList, NoList),
     ParsedDraw("lotto-max", 51, <<1, 2, 3>>, List(<<4>>), NoList)}

\* prisma.officialDraw.findFirst({ where: { gameId }, orderBy: { drawAt:
\* 'desc' } }): the id of the draw, 0 for null.
LatestDraw(table, gameId) ==
    LET hits == {i \in DOMAIN table : table[i].gameId = gameId}
    IN  IF hits = {} THEN 0
        ELSE CHOOSE i \in hits : \A j \in hits : table[j].drawAt <= table[i].drawAt

\* evaluations: { none: {} }
Evaluated(evaluation, candidateId) ==
    \E i \in DOMAIN evaluation : evaluation[i].candidateId = candidateId

\* The where clause of the route's findMany (lines 57-68).
ResultWhere(candidate, evaluation, gameId, drawAt) ==
    {i \in DOMAIN candidate :
        /\ candidate[i].gameId = gameId
        /\ candidate[i].eligible
        /\ ~Evaluated(evaluation, i)
        /\ candidate[i].intendedDrawAt <= drawAt}

\* The ids of a set in ascending order (the order of creation).
RECURSIVE IdList(_)
IdList(ids) ==
    IF ids = {} THEN <<>>
    ELSE LET least == CHOOSE i \in ids : \A j \in ids : i <= j
         IN  <<least>> \o IdList(ids \ {least})

\* getPrizeCategory for lotto-max; null is "null".
getPrizeCategory(gameSlug, mainMatches, bonusMatches) ==
    IF gameSlug = "lotto-max"
    THEN CASE mainMatches = 7 -> "JACKPOT"
           [] mainMatches = 6 -> "2ND"
           [] mainMatches = 5 -> "3RD"
           [] mainMatches = 4 -> "4TH"
           [] mainMatches = 3 -> "FREE_PLAY"
           [] OTHER -> "null"
    ELSE "null"

\* Whether a new row breaks one of the unique keys of the schema.
UniqueViolation(schema, evaluation, row) ==
    \E i \in DOMAIN evaluation :
        /\ evaluation[i].officialDrawId = row.officialDrawId
        /\ \/ /\ "officialDrawId_strategy" \in schema
              /\ evaluation[i].strategy = row.strategy
           \/ /\ "officialDrawId_candidateId" \in schema
              /\ evaluation[i].candidateId = row.candidateId

\* The row the route creates for a candidate (lines 84-106).
ResultRow(gameSlug, draw, officialDrawId, candidate, candidateId) ==
    LET candidateNumbers == parseNumbers(candidate.numbers)
        officialNumbers == parseNumbers(draw.numbers)
        matchCountMain == CountIn(candidateNumbers, Range(officialNumbers))
        matchCountBonus == IF draw.bonus.fmt # "null"
                           THEN CountIn(candidateNumbers, Range(parseNumbers(draw.bonus)))
                           ELSE 0
    IN  [officialDrawId |-> officialDrawId, strategy |-> candidate.strategy,
         candidateId |-> candidateId, matchCountMain |-> matchCountMain,
         matchCountBonus |-> matchCountBonus, matchCountGrand |-> Null,
         category |-> getPrizeCategory(gameSlug, matchCountMain, matchCountBonus),
         prizeValue |-> Null, prizeText |-> NoText]

\* ingestOfficialDraws of one scraped draw.
IngestDraw ==
    /\ \E draw \in ResultFeed :
         db' = [db EXCEPT !.officialDraw = Ingest(db.officialDraw, <<draw>>, TRUE).table]
    /\ UNCHANGED <<ev, astro, gen, rl, track>>

\* POST up to the end of prisma.officialDraw.findFirst.
ResultFindDraw ==
    /\ \E r \in Requests, gameSlug \in {"lotto-max", "keno"} :
        /\ track.request[r].pc = "idle"
        /\ LET latestDraw == LatestDraw(db.officialDraw, GameId(gameSlug))
           IN  track' = [track EXCEPT !.request[r] =
                   IF gameSlug \notin DbGames
                   THEN [pc |-> "responded", gameSlug |-> gameSlug, status |-> 404,
                         success |-> FALSE, latestDraw |-> 0, todo |-> <<>>,
                         candidatesEvaluated |-> 0]
                   ELSE IF latestDraw = 0
                   THEN [pc |-> "responded", gameSlug |-> gameSlug, status |-> 200,
                         success |-> FALSE, latestDraw |-> 0, todo |-> <<>>,
                         candidatesEvaluated |-> 0]
                   ELSE [pc |-> "candidates", gameSlug |-> gameSlug, status |-> 200,
                         success |-> TRUE, latestDraw |-> latestDraw, todo |-> <<>>,
                         candidatesEvaluated |-> 0]]
    /\ UNCHANGED <<ev, astro, gen, db, rl>>

\* prisma.generatedCandidate.findMany; with no candidate the loop is empty
\* and the summary is returned.
ResultFindCandidates ==
    /\ \E r \in Requests :
        /\ track.request[r].pc = "candidates"
        /\ LET request == track.request[r]
               candidates ==
                   IdList(ResultWhere(track.candidate, track.evaluation,
                                      GameId(request.gameSlug),
                                      db.officialDraw[request.latestDraw].drawAt))
           IN  track' = [track EXCEPT !.request[r] =
                   [request EXCEPT !.pc = IF candidates = <<>> THEN "responded"
                                          ELSE "evaluating",
                                   !.todo = candidates]]
    /\ UNCHANGED <<ev, astro, gen, db, rl>>

\* One turn of the for loop: prisma.evaluation.create for the next
\* candidate.  A unique key broken makes create throw and the request end
\* with status 500; after the last candidate the summary is returned.
ResultCreateEvaluation ==
    /\ \E r \in Requests :
        /\ track.request[r].pc = "evaluating"
        /\ LET request == track.request[r]
               candidateId == Head(request.todo)
               row == ResultRow(request.gameSlug, db.officialDraw[request.latestDraw],
                                request.latestDraw, track.candidate[candidateId],
                                candidateId)
           IN  IF UniqueViolation(track.schema, track.evaluation, row)
               THEN track' = [track EXCEPT !.request[r] =
                        [request EXCEPT !.pc = "responded", !.status = 500,
                                        !.success = FALSE]]
               ELSE track' = [track EXCEPT
                        !.evaluation = Append(@, row),
                        !.request[r] =
                            [request EXCEPT
                                !.pc = IF Tail(request.todo) = <<>> THEN "responded"
                                       ELSE "evaluating",
                                !.todo = Tail(request.todo),
                                !.candidatesEvaluated = @ + 1]]
    /\ UNCHANGED <<ev, astro, gen, db, rl>>

\* The scheduler has the response.
ResultRespond ==
    /\ \E r \in Requests :
        /\ track.request[r].pc = "responded"
        /\ track' = [track EXCEPT !.request[r] = NoRequest]
    /\ UNCHANGED <<ev, astro, gen, db, rl>>

ResultInit ==
    /\ ev = EvalIdle /\ astro = [pc |-> "idle"] /\ gen = GenIdle /\ db = DbEmpty
    /\ rl = RlUnused
    /\ \E schema \in Schemas : track = [TrackEmpty EXCEPT !.schema = schema]

ResultNext ==
    \/ CreateCandidate
    \/ IngestDraw
    \/ ResultFindDraw
    \/ ResultFindCandidates
    \/ ResultCreateEvaluation
    \/ ResultRespond

SpecResult == ResultInit /\ [][ResultNext]_vars

\* toLocaleDateString('en-CA', { timeZone: 'America/Toronto' }): the day
\* number of the Toronto calendar date of an instant, Toronto being 5 hours
\* behind UTC (standard time).
TorontoOffsetHours == 5
toTorontoDateString(date) == (date - TorontoOffsetHours) \div 24

\* getCandidateWindow: 36 hours to either side of the draw.
BufferHours == 36
getCandidateWindow(drawAt) == [start |-> drawAt - BufferHours, end |-> drawAt + BufferHours]

\* cost of the game row (prisma/seed.ts).
GameCost == 5

\* The row evaluateCandidatesForDraw writes (update and create carry the
\* same values).
RefreshRow(officialDrawId, candidate, candidateId, evaluation) ==
    [officialDrawId |-> officialDrawId, strategy |-> candidate.strategy,
     candidateId |-> candidateId, matchCountMain |-> evaluation.matchCountMain,
     matchCountBonus |-> evaluation.matchCountBonus,
     matchCountGrand |-> evaluation.matchCountGrand,
     category |-> evaluation.category, prizeValue |-> evaluation.prizeValue,
     prizeText |-> evaluation.prizeText]

\* prisma.evaluation.upsert({ where: { officialDrawId_candidateId }, ... })
\* on the table: the table it leaves, or "threw" when the key is not
\* one of the schema or the created row breaks another unique key.
EvaluationUpsert(schema, table, row) ==
    LET stored == {i \in DOMAIN table :
                      /\ table[i].officialDrawId = row.officialDrawId
                      /\ table[i].candidateId = row.candidateId}
    IN  IF "officialDrawId_candidateId" \notin schema THEN [threw |-> TRUE, table |-> table]
        ELSE IF stored # {}
        THEN [threw |-> FALSE,
              table |-> [i \in DOMAIN table |-> IF i \in stored THEN row ELSE table[i]]]
        ELSE IF UniqueViolation(schema, table, row) THEN [threw |-> TRUE, table |-> table]
        ELSE [threw |-> FALSE, table |-> Append(table, row)]

\* toTorontoDateString(candidate.intendedDrawAt) !== drawDateKey, negated.
SameDrawDate(intendedDrawAt, drawAt) ==
    toTorontoDateString(intendedDrawAt) = toTorontoDateString(drawAt)

\* The for loop of evaluateCandidatesForDraw over the candidates left:
\* RefreshLoop is the date test, RefreshEvaluated what follows
\* evaluatePrediction, RefreshWritten what follows the upsert.
RECURSIVE RefreshLoop(_, _, _, _, _)

RefreshWritten(report, todo, candidate, draw, officialDrawId, written) ==
    IF written.threw THEN [report EXCEPT !.threw = TRUE]
    ELSE RefreshLoop([report EXCEPT !.table = written.table, !.evaluated = @ + 1],
                     Tail(todo), candidate, draw, officialDrawId)

RefreshEvaluated(report, todo, candidate, draw, officialDrawId, evaluation) ==
    IF evaluation.isNull
    THEN RefreshLoop([report EXCEPT !.skipped = @ + 1], Tail(todo), candidate, draw,
                     officialDrawId)
    ELSE RefreshWritten(report, todo, candidate, draw, officialDrawId,
                        EvaluationUpsert(report.schema, report.table,
                                         RefreshRow(officialDrawId, candidate[Head(todo)],
                                                    Head(todo), evaluation)))

RefreshLoop(report, todo, candidate, draw, officialDrawId) ==
    IF todo = <<>> THEN report
    ELSE IF ~SameDrawDate(candidate[Head(todo)].intendedDrawAt, draw.drawAt)
    THEN RefreshLoop([report EXCEPT !.skipped = @ + 1], Tail(todo), candidate, draw,
                     officialDrawId)
    ELSE RefreshEvaluated(report, todo, candidate, draw, officialDrawId,
                          evaluatePrediction("lotto-max", candidate[Head(todo)].numbers,
                                             candidate[Head(todo)].bonusNumbers,
                                             draw.numbers, draw.bonus, <<>>, GameCost))

\* The candidates of the window of a draw (lines 163-171).
RefreshWindow(candidate, draw, window) ==
    IdList({i \in DOMAIN candidate :
               /\ candidate[i].gameId = draw.gameId
               /\ candidate[i].intendedDrawAt >= window.start
               /\ candidate[i].intendedDrawAt <= window.end})

\* The tables and the counts a call leaves.
RefreshDone(officialDrawId, report) ==
    [track EXCEPT
        !.evaluation = report.table,
        !.refresh = [pc |-> "done", officialDrawId |-> officialDrawId,
                     evaluated |-> report.evaluated, skipped |-> report.skipped,
                     threw |-> report.threw]]

\* evaluateCandidatesForDraw for one official draw of lotto-max, as the
\* refresh route calls it for every draw it has scraped.  The call is one
\* step.
RefreshEvaluate ==
    /\ track.refresh.pc = "idle"
    /\ \E officialDrawId \in DOMAIN db.officialDraw :
        /\ db.officialDraw[officialDrawId].gameId = GameId("lotto-max")
        /\ track' = RefreshDone(officialDrawId,
               RefreshLoop([schema |-> track.schema, table |-> track.evaluation,
                            evaluated |-> 0, skipped |-> 0, threw |-> FALSE],
                           RefreshWindow(track.candidate, db.officialDraw[officialDrawId],
                               getCandidateWindow(db.officialDraw[officialDrawId].drawAt)),
                           track.candidate, db.officialDraw[officialDrawId],
                           officialDrawId))
    /\ UNCHANGED <<ev, astro, gen, db, rl>>

\* The refresh route has the counts.
RefreshReturn ==
    /\ track.refresh.pc = "done"
    /\ track' = [track EXCEPT !.refresh = NoRequest]
    /\ UNCHANGED <<ev, astro, gen, db, rl>>

\* One request to the result route at a time, beside the refresh route.
RefreshInit ==
    /\ ev = EvalIdle /\ astro = [pc |-> "idle"] /\ gen = GenIdle /\ db = DbEmpty
    /\ rl = RlUnused
    /\ \E schema \in Schemas :
         track = [TrackEmpty EXCEPT !.schema = schema,
                                    !.request[2] = [pc |-> "unused"]]

RefreshNext == ResultNext \/ RefreshEvaluate \/ RefreshReturn

SpecRefresh == RefreshInit /\ [][RefreshNext]_vars

(***************************************************************************)
(* ASTRONOMICAL CLOCK  (src/lib/astronomy/engine.ts)                       *)
(*                                                                         *)
(* Angles are counted in 1/300 of a degree, so that a tithi (12 degrees)   *)
(* and a nakshatra (360/27 degrees) are whole numbers of units. A Date is  *)
(* [yr, ms8]: whole Julian years since 2000-01-01 plus an offset in 1/8 of *)
(* a millisecond (the binary search halves one hour ten times, which       *)
(* leaves eighths of a millisecond). Date arithmetic acts on the offset.   *)
(***************************************************************************)

Deg(d) == 300 * d
Ms(n) == 8 * n
Date(yr, ms8) == [yr |-> yr, ms8 |-> ms8]

\* new Date(x) drops the fraction of a millisecond.
NewDate(d) == Date(d.yr, d.ms8 - (d.ms8 % 8))

AYANAMSA_2000 == 7155

\* yearsSince2000 * PRECESSION_RATE: 50.29 / 3600 degrees per Julian year of
\* 1000 * 60 * 60 * 24 * 365.25 ms (5029 / 1200 units per year).
Precession(date) ==
    (date.yr * 5029 + ((date.ms8 \div 1048576) * 5029) \div 240765) \div 1200

getAyanamsa(date) == AYANAMSA_2000 + Precession(date)

\* The ephemeris (astronomy-engine) is external. The sky is a moon in uniform
\* motion: at offset 0 the phase angle is phase0 and the tropical ecliptic
\* longitude lon0, and they advance by phaseRate and lonRate units per hour.
\* Both stay in [0, 360).
Sky(phase0, phaseRate, lon0, lonRate) ==
    [phase0 |-> phase0, phaseRate |-> phaseRate, lon0 |-> lon0, lonRate |-> lonRate]

Advance(ms8, rate) == ((ms8 \div 1024) * rate) \div 28125

MoonPhase(sky, date) == (sky.phase0 + Advance(date.ms8, sky.phaseRate)) % Deg(360)

EclipticLon(sky, date) == (sky.lon0 + Advance(date.ms8, sky.lonRate)) % Deg(360)

getTithi(sky, date) ==
    LET phaseAngle == MoonPhase(sky, date)
    IN  [index |-> (phaseAngle \div Deg(12)) + 1, phaseAngle |-> phaseAngle]

\* nakshatraSpan = 360 / 27 degrees = 4000 units.
getNakshatra(sky, date) ==
    LET raw == EclipticLon(sky, date) - getAyanamsa(date)
        siderealLon == IF raw < 0 THEN raw + Deg(360) ELSE raw
    IN  [index |-> (siderealLon \div 4000) + 1, longitude |-> siderealLon]

stepMinutes == 60
maxSteps == 48
PRECISION_MS == 5000

\* The index the search follows.
IndexAt(kind, sky, date) ==
    IF kind = "tithi" THEN getTithi(sky, NewDate(date)).index
    ELSE getNakshatra(sky, NewDate(date)).index

AddMs8(date, d) == Date(date.yr, date.ms8 + d)

StepMs8 == Ms(stepMinutes * 60000)

(***************************************************************************)
(* The clock's state machine: a reading of both indices at one instant,    *)
(* or one next-change search, step by step (coarse scan, binary search).   *)
(***************************************************************************)

\* The start instants tried within a year: k * 1234567 ms, k in 0..MaxStart.
MaxStart == 2

AstroYears == {-2500, -2000, -1707, 0, 26, 1000, 24000, 30000}
SearchYears == {0, 26}

\* Angles at, just before and inside band boundaries, over the whole circle.
AngleSamples ==
    {0, 1, Deg(6), Deg(12) - 1, Deg(12), 3999, 4000, Deg(24), Deg(174),
     Deg(180), Deg(336), Deg(348) - 1, Deg(354), Deg(360) - 4000, Deg(360) - 1}

\* Units per hour. The real moon gains 0.43 to 0.60 degrees of phase an hour
\* (129 to 180 units); the slower rates are skies in which an index lasts
\* longer than the scan's 48 hours.
MoonRates == {20, 70, 129, 152, 180}

AstroBlank ==
    [pc |-> "idle", kind |-> "none", sky |-> Sky(0, 0, 0, 0), start |-> Date(0, 0),
     startIndex |-> 0, i |-> 0, t1 |-> Date(0, 0), low |-> 0, high |-> 0,
     found |-> FALSE, outcome |-> "none", result |-> Date(0, 0),
     tithi |-> 0, nakshatra |-> 0, longitude |-> 0]

\* getTithi(date) and getNakshatra(date) for one instant.
ReadIndices ==
    /\ astro.pc = "idle"
    /\ \E yr \in AstroYears, phase \in AngleSamples, lon \in AngleSamples :
         LET sky == Sky(phase, 152, lon, 165)
             date == Date(yr, 0)
         IN  astro' = [AstroBlank EXCEPT
                 !.pc = "read", !.kind = "read", !.sky = sky, !.start = date,
                 !.tithi = getTithi(sky, date).index,
                 !.nakshatra = getNakshatra(sky, date).index,
                 !.longitude = getNakshatra(sky, date).longitude]
    /\ UNCHANGED <<ev, gen, db, rl, track>>

\* getNextTithiChange(startDate) / getNextNakshatraChange(startDate) up to
\* the start of the coarse scan.
StartSearch ==
    /\ astro.pc = "idle"
    /\ \E kind \in {"tithi", "nakshatra"}, yr \in SearchYears, k \in 0..MaxStart,
          a0 \in AngleSamples, rate \in MoonRates :
         LET sky == IF kind = "tithi" THEN Sky(a0, rate, 0, 0) ELSE Sky(0, 0, a0, rate)
             start == Date(yr, Ms(k * 1234567))
         IN  astro' = [AstroBlank EXCEPT
                 !.pc = "scan", !.kind = kind, !.sky = sky, !.start = start,
                 !.startIndex = IndexAt(kind, sky, start), !.t1 = start]
    /\ UNCHANGED <<ev, gen, db, rl, track>>

\* One pass of the coarse loop: a change of index hands the hour to the
\* binary search.
ScanStep ==
    /\ astro.pc = "scan"
    /\ astro.i < maxSteps
    /\ LET t1 == AddMs8(astro.t1, StepMs8)
       IN  IF IndexAt(astro.kind, astro.sky, t1) # astro.startIndex
           THEN astro' = [astro EXCEPT !.pc = "bisect", !.t1 = t1, !.found = TRUE,
                                       !.low = t1.ms8 - StepMs8, !.high = t1.ms8]
           ELSE astro' = [astro EXCEPT !.t1 = t1, !.i = astro.i + 1]
    /\ UNCHANGED <<ev, gen, db, rl, track>>

\* The coarse loop ran out: "return t1".
ScanExhausted ==
    /\ astro.pc = "scan"
    /\ astro.i >= maxSteps
    /\ astro' = [astro EXCEPT !.pc = "done", !.outcome = "returned",
                              !.result = astro.t1]
    /\ UNCHANGED <<ev, gen, db, rl, track>>

\* A pass that moves the wrong bound.
BisectStep_Inverted ==
    /\ astro.pc = "bisect"
    /\ astro.high - astro.low > Ms(PRECISION_MS)
    /\ LET mid == astro.low + (astro.high - astro.low) \div 2
       IN  IF IndexAt(astro.kind, astro.sky, Date(astro.start.yr, mid)) = astro.startIndex
           THEN astro' = [astro EXCEPT !.high = mid]
           ELSE astro' = [astro EXCEPT !.low = mid]
    /\ UNCHANGED <<ev, gen, db, rl, track>>

\* One pass of the binary search's loop.
BisectStep ==
    /\ astro.pc = "bisect"
    /\ astro.high - astro.low > Ms(PRECISION_MS)
    /\ LET mid == astro.low + (astro.high - astro.low) \div 2
       IN  IF IndexAt(astro.kind, astro.sky, Date(astro.start.yr, mid)) = astro.startIndex
           THEN astro' = [astro EXCEPT !.low = mid]
           ELSE astro' = [astro EXCEPT !.high = mid]
    /\ UNCHANGED <<ev, gen, db, rl, track>>

\* "return new Date(high)".
BisectReturn ==
    /\ astro.pc = "bisect"
    /\ astro.high - astro.low <= Ms(PRECISION_MS)
    /\ astro' = [astro EXCEPT !.pc = "done", !.outcome = "returned",
                              !.result = NewDate(Date(astro.start.yr, astro.high))]
    /\ UNCHANGED <<ev, gen, db, rl, track>>

\* The caller has the value; the clock keeps nothing.
AstroReturn ==
    /\ astro.pc \in {"done", "read"}
    /\ astro' = AstroBlank
    /\ UNCHANGED <<ev, gen, db, rl, track>>

AstroInit ==
    ev = EvalIdle /\ astro = AstroBlank /\ gen = GenIdle /\ db = DbEmpty /\ rl = RlUnused
    /\ track = TrackUnused

AstroNext ==
    \/ ReadIndices
    \/ StartSearch
    \/ ScanStep
    \/ ScanExhausted
    \/ BisectStep
    \/ BisectReturn
    \/ AstroReturn

SpecAstro == AstroInit /\ [][AstroNext]_vars

(***************************************************************************)
(* NUMBER GENERATOR  (src/lib/generator/index.ts)                          *)
(*                                                                         *)
(* A value of random() is a fraction x / 65536 with 0 <= x < 65536, and    *)
(* every score is kept on that scale: Unit(k) is the number k.             *)
(*                                                                         *)
(* Mulberry32 adds a constant to its state at every call and returns a     *)
(* mixed copy of the state.  The model keeps the additive walk and leaves  *)
(* the bit mixing out: a generator is its seed and the number of calls     *)
(* made, and call number c of seed s returns the value at position         *)
(* 5 * s + c of a walk over the 64 values k / 64, an even seed advancing   *)
(* by 37/64 at every call (successive values far apart) and an odd seed by *)
(* 3/64 (successive values close together).  Seeds are taken modulo 67;    *)
(* the residues 64, 65 and 66 stand for the three extreme streams, which   *)
(* return 0, 1/2 and 65535/65536 at every call and drive the construction  *)
(* loops to the end of their budgets.                                      *)
(***************************************************************************)

Unit(k) == 65536 * k

createSeededRandom(seed) == [seed |-> seed % 67, calls |-> 0]

\* The value the next call random() returns, and the generator after k calls.
Draw(random) ==
    IF random.seed < 64
    THEN LET stride == IF random.seed % 2 = 0 THEN 37 ELSE 3
         IN  1024 * ((stride * (5 * random.seed + random.calls)) % 64)
    ELSE IF random.seed = 64 THEN 0
    ELSE IF random.seed = 65 THEN 32768
    ELSE 65535

After(random, k) == [random EXCEPT !.calls = @ + k]

\* digitalRoot without the replacement of 0 by 9.
digitalRoot_Mod9(n) == n % 9

digitalRoot(n) ==
    IF n = 0 THEN 9
    ELSE LET result == n % 9
         IN  IF result = 0 THEN 9 ELSE result

\* biasStrength is left at its default, 10.
\* calculateBias with a biasStrength of 20.
calculateBias_Strength20(numberDigitalRoot, anchorDigitalRoot) ==
    IF numberDigitalRoot = anchorDigitalRoot THEN Unit(20)
    ELSE LET diff == Abs(numberDigitalRoot - anchorDigitalRoot)
         IN  IF diff = 1 \/ diff = 8 THEN Unit(10) ELSE 0

calculateBias(numberDigitalRoot, anchorDigitalRoot) ==
    IF numberDigitalRoot = anchorDigitalRoot THEN Unit(10)
    ELSE LET diff == Abs(numberDigitalRoot - anchorDigitalRoot)
         IN  IF diff = 1 \/ diff = 8 THEN Unit(10) \div 2 ELSE 0

\* The Map of scores as a function on min..max: scores.set(n, random() * 10).
generateBaseScores(min, max, seed) ==
    LET random == createSeededRandom(seed)
    IN  [n \in min..max |-> 10 * Draw(After(random, n - min))]

\* baseScores.get(n) || 0
ScoreOf(scores, n) == IF n \in DOMAIN scores THEN scores[n] ELSE 0

\* numbers.sort((a, b) => a - b) applied to a collection of distinct numbers.
RECURSIVE SortAsc(_)
SortAsc(S) ==
    IF S = {} THEN <<>>
    ELSE LET m == CHOOSE x \in S : \A y \in S : x <= y
         IN  <<m>> \o SortAsc(S \ {m})

\* A score is the fraction num / den; Whole(x) is the score x.
Whole(x) == [num |-> x, den |-> 1]

Above(a, b) == a.num * b.den > b.num * a.den

\* The head of the candidate list sorted by score descending, among the
\* candidates lo..hi that are not in `taken` (Null when there is none).  The
\* list is built in ascending order and the sort is stable, so of equal
\* scores the smallest candidate comes first - which is also what the
\* comparators that fall back on a.number - b.number ask for.
RECURSIVE SortedHead(_, _, _, _)
SortedHead(score, lo, hi, taken) ==
    IF lo > hi THEN Null
    ELSE IF lo = hi THEN (IF lo \in DOMAIN score /\ lo \notin taken THEN lo ELSE Null)
    ELSE LET mid == (lo + hi) \div 2
             a == SortedHead(score, lo, mid, taken)
             b == SortedHead(score, mid + 1, hi, taken)
         IN  IF a = Null THEN b
             ELSE IF b = Null THEN a
             ELSE IF Above(score[b], score[a]) THEN b ELSE a

\* sort(...).slice(0, count): the first `count` entries of the sorted list.
RECURSIVE SortedPrefix(_, _, _, _, _)
SortedPrefix(score, lo, hi, taken, count) ==
    LET head == SortedHead(score, lo, hi, taken)
    IN  IF count <= 0 \/ head = Null THEN <<>>
        ELSE <<head>> \o SortedPrefix(score, lo, hi, taken \cup {head}, count - 1)

\* The for loop of applyFullMoonModifier from iteration `attempt` on.
RECURSIVE ModifierAttempt(_, _, _, _, _, _)
ModifierAttempt(sorted, min, max, modified, repairSteps, attempt) ==
    LET lastIdx == Len(sorted)
        original == sorted[lastIdx]
    IN  IF attempt >= 10
        THEN [numbers |-> sorted, applied |-> FALSE, before |-> original,
              after |-> original, repairSteps |-> repairSteps]
        ELSE LET tensDigit == modified \div 10
                 onesDigit == modified % 10
                 newOnesDigit == (onesDigit + 1) % 10
                 next == tensDigit * 10 + newOnesDigit
             IN  IF /\ next >= min
                    /\ next <= max
                    /\ next \notin Range(SubSeq(sorted, 1, lastIdx - 1))
                 THEN [numbers |-> [sorted EXCEPT ![lastIdx] = next], applied |-> TRUE,
                       before |-> original, after |-> next,
                       repairSteps |-> repairSteps + 1]
                 ELSE ModifierAttempt(sorted, min, max, next, repairSteps + 1, attempt + 1)

applyFullMoonModifier(numbers, min, max) ==
    LET sorted == SortAsc(Range(numbers))
    IN  ModifierAttempt(sorted, min, max, sorted[Len(sorted)], 0, 0)

\* Minutes past local midnight in Toronto (UTC-5; daylight saving is left
\* out): 2000-01-01T00:00Z is 19:00 there and a Julian year adds six hours.
LocalMinuteOfDay(date) == (1140 + date.yr * 360 + date.ms8 \div 480000) % 1440

\* Astronomy.SearchMoonPhase(180, start, 30), `startMinute` and the answer
\* both in minutes relative to `date`; Null when 30 days pass without one.
SearchMoonPhase(sky, date, startMinute) ==
    LET phaseAtStart == (MoonPhase(sky, date) + (startMinute \div 60) * sky.phaseRate) % Deg(360)
        wait == (((Deg(180) - phaseAtStart) % Deg(360)) * 60) \div sky.phaseRate
    IN  IF wait <= 30 * 1440 THEN startMinute + wait ELSE Null

searchFullMoon(sky, date, startMinute) ==
    LET moon == SearchMoonPhase(sky, date, startMinute)
    IN  IF moon = Null THEN startMinute + (59 * 1440) \div 2 ELSE moon

isFullMoonDate(sky, checkDate) ==
    LET fullMoon == searchFullMoon(sky, checkDate, -(15 * 1440))
        checkDay == LocalMinuteOfDay(checkDate) \div 1440
        fullDay == (LocalMinuteOfDay(checkDate) + fullMoon) \div 1440
    IN  checkDay = fullDay

\* historicalStats: absent, or score maps (bonusScores itself optional).
NoStats == [present |-> FALSE, mainScores |-> <<>>, hasBonus |-> FALSE, bonusScores |-> <<>>]

Stats(mainScores, hasBonus, bonusScores) ==
    [present |-> TRUE, mainScores |-> mainScores, hasBonus |-> hasBonus,
     bonusScores |-> bonusScores]

\* throw new Error(`Unknown game: ${gameSlug}`)
Thrown == [threw |-> TRUE]

\* `seed` is the effective seed of the call.  `trace` is not part of the
\* returned object: it records the local isFullMoonDate(eventDate) and the
\* selection before the modifier.
\* Bonus candidates that overlook the main numbers.
BonusCandidates_Unfiltered(config, mainNumbers) == config.bonusMin..config.bonusMax

\* The numbers of bonusCandidates, or of filteredCandidates when the bonus
\* comes from the same drum.
BonusCandidates(config, mainNumbers) ==
    IF config.bonusFromSameDrum
    THEN (config.bonusMin..config.bonusMax) \ Range(mainNumbers)
    ELSE config.bonusMin..config.bonusMax

NumbersRun(config, gameSlug, strategy, sky, eventDate, seed, historicalStats) ==
    LET tithi == getTithi(sky, eventDate)
        nakshatra == getNakshatra(sky, eventDate)
        nakMod == nakshatra.index % 9
        anchorDigitalRoot ==
            IF strategy = "TITHI" THEN digitalRoot(tithi.index)
            ELSE IF nakMod = 0 THEN 9 ELSE nakMod
        baseScores ==
            IF historicalStats.present THEN historicalStats.mainScores
            ELSE generateBaseScores(config.mainMin, config.mainMax, seed)
        score == [n \in config.mainMin..config.mainMax |->
                     Whole(ScoreOf(baseScores, n)
                               + calculateBias(digitalRoot(n), anchorDigitalRoot))]
        picked == SortAsc(Range(SortedPrefix(score, config.mainMin, config.mainMax, {},
                                             config.mainCount)))
        fullMoon == isFullMoonDate(sky, eventDate)
        modifierResult ==
            IF fullMoon THEN applyFullMoonModifier(picked, config.mainMin, config.mainMax)
            ELSE [numbers |-> picked, applied |-> FALSE, before |-> Undefined,
                  after |-> Undefined, repairSteps |-> Undefined]
        mainNumbers == modifierResult.numbers
        bonusBaseScores ==
            IF historicalStats.present /\ historicalStats.hasBonus
            THEN historicalStats.bonusScores
            ELSE generateBaseScores(config.bonusMin, config.bonusMax, seed + 1000)
        allowed == BonusCandidates(config, mainNumbers)
        bonusScore == [n \in allowed |->
                          Whole(ScoreOf(bonusBaseScores, n)
                                    + calculateBias(digitalRoot(n), anchorDigitalRoot))]
        bonusNumbers ==
            IF config.bonusCount > 0
            THEN SortedPrefix(bonusScore, config.bonusMin, config.bonusMax, {},
                              config.bonusCount)
            ELSE <<>>
    IN  [threw |-> FALSE,
         gameSlug |-> gameSlug,
         strategy |-> strategy,
         mainNumbers |-> mainNumbers,
         hasBonus |-> config.bonusCount > 0,
         bonusNumbers |-> bonusNumbers,
         tithiIndex |-> tithi.index,
         nakshatraIndex |-> nakshatra.index,
         digitalRoot |-> anchorDigitalRoot,
         modifierApplied |-> modifierResult.applied,
         modifierBefore |-> modifierResult.before,
         modifierAfter |-> modifierResult.after,
         modifierRepairSteps |-> modifierResult.repairSteps,
         seed |-> seed,
         trace |-> [isFullMoon |-> fullMoon, picked |-> picked]]

\* generateNumbers when GAME_CONFIGS[gameSlug] is `definition`.
generateNumbersFrom(definition, gameSlug, strategy, sky, eventDate, seed, historicalStats) ==
    IF ~definition.defined THEN Thrown
    ELSE NumbersRun(definition.config, gameSlug, strategy, sky, eventDate, seed,
                    historicalStats)

generateNumbers(gameSlug, strategy, sky, eventDate, seed, historicalStats) ==
    generateNumbersFrom(Lookup(gameSlug), gameSlug, strategy, sky, eventDate, seed,
                        historicalStats)

(***************************************************************************)
(* MULTI-STRATEGY GENERATOR  (src/lib/generator/multi-strategy.ts)         *)
(***************************************************************************)

STRATEGIES == {"STATISTICAL", "POISSON", "DELTA", "MARKOV", "HYBRID"}

\* The loop of shuffleArray from index i (0-based) downwards.
RECURSIVE ShuffleFrom(_, _, _)
ShuffleFrom(result, i, random) ==
    IF i <= 0 THEN [result |-> result, random |-> random]
    ELSE LET j == (Draw(random) * (i + 1)) \div 65536
             swapped == [result EXCEPT ![i + 1] = result[j + 1], ![j + 1] = result[i + 1]]
         IN  ShuffleFrom(swapped, i - 1, After(random, 1))

\* Returns the shuffled copy and the generator as the shuffle leaves it.
shuffleArray(arr, random) == ShuffleFrom(arr, Len(arr) - 1, random)

\* Array.from({ length: max - min + 1 }, (_, i) => min + i)
Pool(min, max) == [i \in 1..(max - min + 1) |-> min + i - 1]

\* Scores are kept times ten: 0.6 * baseFreq + 0.3 * gap + rootBonus.
generateStatistical(config, seed, tithiIndex) ==
    LET random == createSeededRandom(seed)
        tithiRoot == digitalRoot(tithiIndex)
        score == [n \in config.mainMin..config.mainMax |->
                     LET baseFreq == 10 * Draw(After(random, 2 * (n - config.mainMin)))
                         gap == (Draw(After(random, 2 * (n - config.mainMin) + 1)) * 20) \div 65536
                         rootBonus == IF digitalRoot(n) = tithiRoot THEN 5 ELSE 0
                     IN  Whole(6 * baseFreq + Unit(3 * gap) + Unit(10 * rootBonus))]
    IN  [numbers |-> SortAsc(Range(SortedPrefix(score, config.mainMin, config.mainMax, {},
                                                config.mainCount))),
         method |-> "frequency_gap", attempts |-> 0, fallback |-> FALSE, threw |-> FALSE]

NegInfinity == -1

\* What one iteration of the for loop of generatePoisson does with the pool
\* it has shuffled.  loop.attempt counts the subsets examined so far and
\* loop.done tells that the loop has broken off.
\* A search content with one bonus.
PoissonPerfect_OneBonus(score) == score >= 10

\* if (score >= 20) break
PoissonPerfect(score) == score >= 20

PoissonKeep(config, loop, shuffled) ==
    LET targetSumMin == ((config.mainMin + config.mainMax) * config.mainCount * 85) \div 200
        targetSumMax == ((config.mainMin + config.mainMax) * config.mainCount * 115) \div 200
        targetOdd == config.mainCount \div 2
        candidate == SortAsc(Range(Slice(shuffled.result, config.mainCount)))
        sum == SumSeq(candidate)
        oddCount == Cardinality({i \in DOMAIN candidate : candidate[i] % 2 = 1})
        score == (IF sum >= targetSumMin /\ sum <= targetSumMax THEN 10 ELSE 0)
                 + (IF Abs(oddCount - targetOdd) <= 1 THEN 10 ELSE 0)
    IN  [random |-> shuffled.random,
         attempt |-> loop.attempt + 1,
         bestNumbers |-> IF score > loop.bestScore THEN candidate ELSE loop.bestNumbers,
         bestScore |-> IF score > loop.bestScore THEN score ELSE loop.bestScore,
         examined |-> Append(loop.examined, candidate),
         done |-> PoissonPerfect(score)]

\* One iteration of that loop.
PoissonStep(config, loop) ==
    PoissonKeep(config, loop, shuffleArray(Pool(config.mainMin, config.mainMax), loop.random))

\* The next n iterations of that loop, or fewer if it breaks off; the run is
\* halved rather than unrolled one by one to keep the evaluation shallow.
RECURSIVE PoissonLoop(_, _, _)
PoissonLoop(config, loop, n) ==
    IF loop.done THEN loop
    ELSE IF n = 1 THEN PoissonStep(config, loop)
    ELSE PoissonLoop(config, PoissonLoop(config, loop, n \div 2), n - n \div 2)

\* attempts, fallback and examined are not returned by the code: the number
\* of subsets examined, whether the 100 went by without a perfect one, and
\* the subsets in the order of their examination.
PoissonBest(loop) ==
    [threw |-> FALSE, numbers |-> loop.bestNumbers, method |-> "sum_parity_balance",
     attempts |-> loop.attempt, fallback |-> ~loop.done, examined |-> loop.examined]

generatePoisson(config, seed) ==
    PoissonBest(PoissonLoop(config, [random |-> createSeededRandom(seed), attempt |-> 0,
                                     bestNumbers |-> <<>>, bestScore |-> NegInfinity,
                                     examined |-> <<>>, done |-> FALSE], 100))

\* deltaWeights[i] for i = 1..12 (the unused entry 0 is left out).
deltaWeights == <<20, 18, 15, 12, 10, 8, 6, 5, 4, 3, 2, 1>>

RECURSIVE PickDeltaFrom(_, _)
PickDeltaFrom(r, i) ==
    IF i > Len(deltaWeights) THEN 1
    ELSE LET rest == r - Unit(deltaWeights[i])
         IN  IF rest <= 0 THEN i ELSE PickDeltaFrom(rest, i + 1)

\* pickDelta() on a generator whose next value is Draw(random).
pickDelta(random) == PickDeltaFrom(Draw(random) * SumSeq(deltaWeights), 1)

\* The inner for loop of generateDelta.
RECURSIVE DeltaChain(_, _, _)
DeltaChain(config, numbers, random) ==
    IF Len(numbers) >= config.mainCount THEN [numbers |-> numbers, random |-> random]
    ELSE LET delta == pickDelta(random)
             next == numbers[Len(numbers)] + delta
         IN  IF next > config.mainMax
             THEN [numbers |-> numbers, random |-> After(random, 1)]
             ELSE DeltaChain(config, Append(numbers, next), After(random, 1))

\* An iteration that starts its chain anywhere in the range.
DeltaStep_AnyStart(config, loop) ==
    LET first == (Draw(loop.random) * config.mainMax) \div 65536 + config.mainMin
        chain == DeltaChain(config, <<first>>, After(loop.random, 1))
        complete == Len(chain.numbers) = config.mainCount
    IN  [numbers |-> chain.numbers,
         random |-> chain.random,
         attempts |-> IF complete THEN loop.attempts ELSE loop.attempts + 1,
         done |-> complete]

\* One iteration of the while loop of generateDelta.
DeltaStep(config, loop) ==
    LET first == (Draw(loop.random) * config.mainMax) \div (3 * 65536) + config.mainMin
        chain == DeltaChain(config, <<first>>, After(loop.random, 1))
        complete == Len(chain.numbers) = config.mainCount
    IN  [numbers |-> chain.numbers,
         random |-> chain.random,
         attempts |-> IF complete THEN loop.attempts ELSE loop.attempts + 1,
         done |-> complete]

\* The next n iterations of that loop, or fewer if it breaks off.
RECURSIVE DeltaLoop(_, _, _)
DeltaLoop(config, loop, n) ==
    IF loop.done THEN loop
    ELSE IF n = 1 THEN DeltaStep(config, loop)
    ELSE DeltaLoop(config, DeltaLoop(config, loop, n \div 2), n - n \div 2)

DeltaAttempts(config, seed) ==
    DeltaLoop(config, [numbers |-> <<>>, random |-> createSeededRandom(seed),
                       attempts |-> 0, done |-> FALSE], 50)

\* The end of generateDelta without its fallback block.
DeltaFallback_Skipped(config, built) ==
    [threw |-> FALSE, numbers |-> built.numbers, method |-> "delta_construction",
     attempts |-> built.attempts, fallback |-> Len(built.numbers) # config.mainCount]

\* The end of generateDelta: the fallback block and the return.  attempts
\* and fallback are not returned by the code: the attempts that were
\* abandoned, and whether the fallback block ran.
DeltaFallback(config, built) ==
    LET failed == Len(built.numbers) # config.mainCount
        shuffled == shuffleArray(Pool(config.mainMin, config.mainMax), built.random)
    IN  [numbers |-> IF failed
                     THEN SortAsc(Range(Slice(shuffled.result, config.mainCount)))
                     ELSE built.numbers,
         method |-> "delta_construction",
         threw |-> FALSE,
         attempts |-> built.attempts,
         fallback |-> failed]

generateDelta(config, seed) == DeltaFallback(config, DeltaAttempts(config, seed))
\* prob = 10 / (distance + 1) + rootMatch + 2 * random() is kept as the
\* fraction num / (65536 * den); the k-th unselected number, counted upwards
\* from mainMin, receives the k-th draw.
MarkovProb(config, numbers, current, random) ==
    [n \in (config.mainMin..config.mainMax) \ numbers |->
        LET distance == Abs(n - current)
            rootMatch == IF digitalRoot(n) = digitalRoot(current) THEN 3 ELSE 0
            k == (n - config.mainMin) - Cardinality({s \in numbers : s < n})
        IN  [num |-> Unit(10) + (Unit(rootMatch) + 2 * Draw(After(random, k))) * (distance + 1),
             den |-> distance + 1]]

\* Math.floor(random() * Math.min(5, candidates.length)) reaching beyond the
\* fifth candidate.
MarkovPickIndex_TopTen(random, length) ==
    (Draw(After(random, length)) * Min2(10, length)) \div 65536

\* pickIndex, drawn after the `length` draws of the candidates' scores.
MarkovPickIndex(random, length) ==
    (Draw(After(random, length)) * Min2(5, length)) \div 65536

\* candidates[pickIndex].n after the sort by descending prob.
MarkovNext(config, prob, pickIndex) ==
    SortedPrefix(prob, config.mainMin, config.mainMax, {}, pickIndex + 1)[pickIndex + 1]

RECURSIVE MarkovWalk(_, _, _, _, _)

\* current = candidates[pickIndex].n; numbers.add(current)
MarkovAdd(config, numbers, random, steps, prob, next) ==
    MarkovWalk(config, numbers \cup {next}, next,
               After(random, Cardinality(DOMAIN prob) + 1),
               Append(steps, [pick |-> next, prob |-> prob]))

\* One iteration of the while loop over the candidates scored `prob`.
MarkovMove(config, numbers, random, steps, prob) ==
    MarkovAdd(config, numbers, random, steps, prob,
              MarkovNext(config, prob, MarkovPickIndex(random, Cardinality(DOMAIN prob))))

\* The while loop of generateMarkov.  steps keeps, for every iteration, the
\* number picked and the candidates' scores.
\* candidates[pickIndex].n of an empty candidate list is a TypeError.
MarkovWalk(config, numbers, current, random, steps) ==
    IF Cardinality(numbers) >= config.mainCount
    THEN [threw |-> FALSE, numbers |-> numbers, steps |-> steps]
    ELSE IF (config.mainMin..config.mainMax) \subseteq numbers
    THEN [threw |-> TRUE, numbers |-> numbers, steps |-> steps]
    ELSE MarkovMove(config, numbers, random, steps,
                    MarkovProb(config, numbers, current, random))

\* The return of generateMarkov, unless the walk has thrown.  steps is not
\* returned by the code.
MarkovReturn(walk) ==
    [threw |-> walk.threw, numbers |-> SortAsc(walk.numbers),
     method |-> "markov_walk", attempts |-> 0, fallback |-> FALSE, steps |-> walk.steps]

generateMarkov(config, seed, nakshatraIndex) ==
    LET random == createSeededRandom(seed)
        startNum == ((nakshatraIndex * 2) % (config.mainMax - config.mainMin)) + config.mainMin
    IN  MarkovReturn(MarkovWalk(config, {startNum}, startNum, random, <<>>))

\* The keys of the votes Map in insertion order.
RECURSIVE Dedup(_, _)
Dedup(s, seen) ==
    IF s = <<>> THEN <<>>
    ELSE IF Head(s) \in seen THEN Dedup(Tail(s), seen)
         ELSE <<Head(s)>> \o Dedup(Tail(s), seen \cup {Head(s)})

\* The vote count of generateHybrid over the numbers the four methods
\* proposed: sort((a, b) => b.v - a.v || b.r - a.r), stable, then slice and
\* sort.  `votes` lists the candidates { n, v, r } in the order of the Map.
\* The candidates ranked by number value where their votes are equal.
HybridRank_ByNumber(candidate) == Whole(Unit(candidate.v) + 1000 - candidate.n)

\* The key of .sort((a, b) => b.v - a.v || b.r - a.r): the larger comes first;
\* r is a draw below 1.
HybridRank(candidate) == Whole(Unit(candidate.v) + candidate.r)

HybridVotes(config, random, statistical, poisson, delta, markov) ==
    LET proposed == statistical.numbers \o poisson.numbers \o delta.numbers \o markov.numbers
        entries == Dedup(proposed, {})
        votes == [k \in DOMAIN entries |->
                     [n |-> entries[k],
                      v |-> Cardinality({i \in DOMAIN proposed : proposed[i] = entries[k]}),
                      r |-> Draw(After(random, k - 1))]]
        score == [k \in DOMAIN entries |-> HybridRank(votes[k])]
        top == SortedPrefix(score, 1, Len(entries), {}, config.mainCount)
    IN  [threw |-> markov.threw,
         numbers |-> SortAsc({entries[top[i]] : i \in DOMAIN top}),
         votes |-> votes,
         proposals |-> <<statistical.numbers, poisson.numbers, delta.numbers,
                         markov.numbers>>]

\* The consensus selection of generateHybrid before its full-moon step.
HybridSelection(config, seed, tithiIndex, nakshatraIndex) ==
    HybridVotes(config, createSeededRandom(seed),
                generateStatistical(config, seed + 1000, tithiIndex),
                generatePoisson(config, seed + 2000),
                generateDelta(config, seed + 3000),
                generateMarkov(config, seed + 4000, nakshatraIndex))

\* The full-moon step of generateHybrid and its return.  selection, votes,
\* proposals and replaced are not returned by the code: the numbers before
\* the step, the candidates, the four lists voted on, and whether the step
\* replaced the last number.
HybridModifier(config, selection, isFullMoon) ==
    LET numbers == selection.numbers
        last == numbers[Len(numbers)]
        newOnes == ((last % 10) + 1) % 10
        modified == (last \div 10) * 10 + newOnes
        replaced == /\ isFullMoon
                    /\ Len(numbers) > 0
                    /\ modified >= config.mainMin
                    /\ modified <= config.mainMax
                    /\ modified \notin Range(numbers)
    IN  [threw |-> selection.threw,
         numbers |-> IF replaced
                     THEN SortAsc(Range([numbers EXCEPT ![Len(numbers)] = modified]))
                     ELSE numbers,
         method |-> "consensus_filter", attempts |-> 0, fallback |-> FALSE,
         selection |-> numbers, votes |-> selection.votes,
         proposals |-> selection.proposals, replaced |-> replaced]

generateHybrid(config, seed, tithiIndex, nakshatraIndex, isFullMoon) ==
    HybridModifier(config, HybridSelection(config, seed, tithiIndex, nakshatraIndex),
                   isFullMoon)

\* The bonus numbers of generateMultiStrategy and its return, `result` being
\* what the strategy produced.  `seed` is the effective seed of the call.
\* `trace` is not part of the returned object: it is what the strategy handed
\* back together with the notes the strategy's model keeps.  An exception of
\* the strategy leaves generateMultiStrategy with it.
MultiStrategyReturn(gameSlug, strategy, config, tithiIndex, nakshatraIndex, fullMoon, seed, result) ==
    LET bonusPool == Pool(config.bonusMin, config.bonusMax)
        available == IF config.bonusFromSameDrum
                     THEN FilterSeq(bonusPool, Range(bonusPool) \ Range(result.numbers))
                     ELSE bonusPool
        shuffled == shuffleArray(available, createSeededRandom(seed + 9999)).result
    IN  IF result.threw THEN Thrown
        ELSE
        [threw |-> FALSE,
         gameSlug |-> gameSlug,
         strategy |-> strategy,
         mainNumbers |-> result.numbers,
         hasBonus |-> config.bonusCount > 0,
         bonusNumbers |-> IF config.bonusCount > 0
                          THEN Slice(shuffled, config.bonusCount)
                          ELSE <<>>,
         tithiIndex |-> tithiIndex,
         nakshatraIndex |-> nakshatraIndex,
         isFullMoon |-> fullMoon,
         seed |-> seed,
         metadata |-> [method |-> result.method],
         trace |-> result]

\* The strategy switch of generateMultiStrategy.
MultiStrategySwitch(strategy, config, tithiIndex, nakshatraIndex, fullMoon, seed) ==
    CASE strategy = "STATISTICAL" -> generateStatistical(config, seed, tithiIndex)
      [] strategy = "POISSON" -> generatePoisson(config, seed)
      [] strategy = "DELTA" -> generateDelta(config, seed)
      [] strategy = "MARKOV" -> generateMarkov(config, seed, nakshatraIndex)
      [] strategy = "HYBRID" ->
             generateHybrid(config, seed, tithiIndex, nakshatraIndex, fullMoon)

MultiStrategyRun(gameSlug, strategy, config, tithiIndex, nakshatraIndex, fullMoon, seed) ==
    MultiStrategyReturn(gameSlug, strategy, config, tithiIndex, nakshatraIndex, fullMoon, seed,
                        MultiStrategySwitch(strategy, config, tithiIndex, nakshatraIndex,
                                            fullMoon, seed))

\* generateMultiStrategy when GAME_CONFIGS[gameSlug] is `definition`.
generateMultiStrategyFrom(definition, gameSlug, strategy, sky, eventDate, seed) ==
    IF ~definition.defined \/ strategy \notin STRATEGIES THEN Thrown
    ELSE MultiStrategyRun(gameSlug, strategy, definition.config,
                          getTithi(sky, eventDate).index, getNakshatra(sky, eventDate).index,
                          isFullMoonDate(sky, eventDate), seed)

generateMultiStrategy(gameSlug, strategy, sky, eventDate, seed) ==
    generateMultiStrategyFrom(Lookup(gameSlug), gameSlug, strategy, sky, eventDate, seed)

(***************************************************************************)
(* THE GENERATORS AS A STATE MACHINE                                       *)
(*                                                                         *)
(* gen.pc = "idle": no call is in progress; "done": a call has finished    *)
(* and gen holds its arguments and what it returned.                       *)
(***************************************************************************)

\* The event timestamps: 2026, 07:00 in Toronto, the moon at a phase angle
\* in the middle of one of the first tithis or within a day of full moon.
GenPhases == {Deg(12) * k + Deg(6) : k \in 0..8} \cup {Deg(170), Deg(174), Deg(183)}

Moment(phase) ==
    LET date == Date(26, 0)
        lon == (getAyanamsa(date) + 2000 + 4000 * ((phase \div 1800) % 27)) % Deg(360)
    IN  [sky |-> Sky(phase, 152, lon, 165), date |-> date]

GenMoments == {Moment(phase) : phase \in GenPhases}

GenSlugs == GameSlugs \cup {"keno"}

MaxSeed == 7

\* The seeds tried: the first walks and the three extreme streams.
Seeds == (0..MaxSeed) \cup {64, 65, 66}

\* Historical profiles: the top score (15) on a run of mainCount numbers
\* near the top of the range, or on a shorter run together with the largest
\* number of the range.
WindowStats(config, lo) ==
    Stats([n \in lo..(lo + config.mainCount - 1) |-> Unit(15)], FALSE, <<>>)

SplitStats(config, lo) ==
    Stats([n \in (lo..(lo + config.mainCount - 2)) \cup {config.mainMax} |-> Unit(15)],
          config.bonusCount > 0,
          [n \in {config.bonusMax} |-> Unit(15)])

GenStats(config) ==
    {WindowStats(config, lo) :
        lo \in (config.mainMax - config.mainCount - 10)..(config.mainMax - config.mainCount + 1)}
        \cup {SplitStats(config, lo) :
                 lo \in (config.mainMax - 12)..(config.mainMax - config.mainCount)}

\* The days on which the profiles are tried: two ordinary ones and two full
\* moons.
StatsMoments == {Moment(Deg(6)), Moment(Deg(30)), Moment(Deg(174)), Moment(Deg(183))}

\* The (eventDate, seed, historicalStats) triples generateNumbers receives.
NumbersInputs(gameSlug) ==
    {<<moment, seed, NoStats>> : moment \in GenMoments, seed \in Seeds}
        \cup (IF gameSlug \in GameSlugs
              THEN {<<moment, 0, stats>> :
                       moment \in StatsMoments, stats \in GenStats(GAME_CONFIGS(gameSlug))}
              ELSE {})

\* The timestamps tried with a strategy: POISSON and DELTA do not look at it.
MultiMoments(strategy) ==
    CASE strategy \in {"POISSON", "DELTA"} -> {Moment(Deg(6))}
      [] strategy = "HYBRID" -> {Moment(Deg(54)), Moment(Deg(174))}
      [] OTHER -> {Moment(Deg(6)), Moment(Deg(54)), Moment(Deg(150)), Moment(Deg(174)),
                   Moment(Deg(183))}

GenerateNumbers ==
    /\ gen.pc = "idle"
    /\ \E gameSlug \in GenSlugs, strategy \in {"TITHI", "NAKSHATRA"} :
         \E input \in NumbersInputs(gameSlug) :
           gen' = [pc |-> "done", api |-> "generateNumbers", gameSlug |-> gameSlug,
                   strategy |-> strategy, sky |-> input[1].sky, eventDate |-> input[1].date,
                   seed |-> input[2], historicalStats |-> input[3],
                   result |-> generateNumbers(gameSlug, strategy, input[1].sky, input[1].date,
                                              input[2], input[3])]
    /\ UNCHANGED <<ev, astro, db, rl, track>>

GenerateMultiStrategy ==
    /\ gen.pc = "idle"
    /\ \E gameSlug \in GenSlugs, strategy \in STRATEGIES, seed \in Seeds :
         \E moment \in MultiMoments(strategy) :
           gen' = [pc |-> "done", api |-> "generateMultiStrategy", gameSlug |-> gameSlug,
                   strategy |-> strategy, sky |-> moment.sky, eventDate |-> moment.date,
                   seed |-> seed, historicalStats |-> NoStats,
                   result |-> generateMultiStrategy(gameSlug, strategy, moment.sky,
                                                    moment.date, seed)]
    /\ UNCHANGED <<ev, astro, db, rl, track>>

\* The caller has the candidate; the generators keep nothing.
GenReturn ==
    /\ gen.pc = "done"
    /\ gen' = GenIdle
    /\ UNCHANGED <<ev, astro, db, rl, track>>

(***************************************************************************)
(* Generation over game definitions other than the four of the table.  The *)
(* table is an exported object and a definition is a GameConfig it holds   *)
(* under the slug asked for: mainCount between 2 and MaxDefCount numbers   *)
(* out of 1..mainMax, mainMax between 2 and MaxDefMax, no bonus; or the     *)
(* table holds nothing under the slug.                                     *)
(***************************************************************************)

MaxDefCount == 5
MaxDefMax == 4

Definitions ==
    {[defined |-> TRUE, config |-> Config("custom", mainCount, mainMax, 0, 0)] :
        mainCount \in 2..MaxDefCount, mainMax \in 2..MaxDefMax} \cup {NoDefinition}

DefinitionCalls ==
    {[api |-> "generateNumbers", strategy |-> strategy] : strategy \in {"TITHI", "NAKSHATRA"}}
        \cup {[api |-> "generateMultiStrategy", strategy |-> strategy] :
                 strategy \in STRATEGIES}

GenerateFromDefinition ==
    /\ gen.pc = "idle"
    /\ \E definition \in Definitions, call \in DefinitionCalls, seed \in {0, 1, 2, 65} :
         \E moment \in {Moment(Deg(6)), Moment(Deg(174))} :
           gen' = [pc |-> "done", api |-> call.api, gameSlug |-> "custom",
                   definition |-> definition, strategy |-> call.strategy,
                   sky |-> moment.sky, eventDate |-> moment.date, seed |-> seed,
                   historicalStats |-> NoStats,
                   result |-> IF call.api = "generateNumbers"
                              THEN generateNumbersFrom(definition, "custom", call.strategy,
                                                       moment.sky, moment.date, seed, NoStats)
                              ELSE generateMultiStrategyFrom(definition, "custom",
                                                             call.strategy, moment.sky,
                                                             moment.date, seed)]
    /\ UNCHANGED <<ev, astro, db, rl, track>>

DefNext == GenerateFromDefinition \/ GenReturn

(***************************************************************************)
(* Generation over game definitions with bonus numbers.  A definition asks *)
(* for 3 main numbers out of 1..5 or 1..12 and for up to MaxBonusCount     *)
(* bonus numbers, drawn from the same drum (the bonus range is the main    *)
(* range and holds enough numbers for both) or from a drum of its own.     *)
(* Two definitions of the table are among them, one with a bonus number.   *)
(***************************************************************************)

MaxBonusCount == 2

WithBonus(config, bonusFromSameDrum) ==
    [config EXCEPT !.bonusFromSameDrum = bonusFromSameDrum]

BonusConfigs ==
    {Config("custom", 3, mainMax, 0, 0) : mainMax \in {5, 12}}
        \cup {WithBonus(Config("custom", 3, mainMax, bonusCount, mainMax), TRUE) :
                 mainMax \in {5, 12},
                 bonusCount \in 1..MaxBonusCount}
        \cup {Config("custom", 3, mainMax, bonusCount, bonusMax) :
                 mainMax \in {5, 12}, bonusCount \in 1..MaxBonusCount,
                 bonusMax \in {MaxBonusCount, 7}}

\* The definitions that hold enough numbers: mainCount numbers in the main
\* range, bonusCount in the bonus range, and both in a shared drum.
BonusDefinitions ==
    {[defined |-> TRUE, config |-> config] :
        config \in {c \in BonusConfigs :
                       /\ c.mainCount <= c.mainMax - c.mainMin + 1
                       /\ c.bonusCount > 0 => c.bonusCount <= c.bonusMax - c.bonusMin + 1
                       /\ c.bonusFromSameDrum =>
                              c.mainCount + c.bonusCount <= c.mainMax - c.mainMin + 1}}
        \cup {Lookup("daily-grand"), Lookup("lotto-max")}

GenerateWithBonus ==
    /\ gen.pc = "idle"
    /\ \E definition \in BonusDefinitions, call \in DefinitionCalls, seed \in {0, 1, 2, 65} :
         \E moment \in {Moment(Deg(6)), Moment(Deg(174))} :
           gen' = [pc |-> "done", api |-> call.api, gameSlug |-> definition.config.slug,
                   definition |-> definition, strategy |-> call.strategy,
                   sky |-> moment.sky, eventDate |-> moment.date, seed |-> seed,
                   historicalStats |-> NoStats,
                   result |-> IF call.api = "generateNumbers"
                              THEN generateNumbersFrom(definition, definition.config.slug,
                                                       call.strategy, moment.sky,
                                                       moment.date, seed, NoStats)
                              ELSE generateMultiStrategyFrom(definition,
                                                             definition.config.slug,
                                                             call.strategy, moment.sky,
                                                             moment.date, seed)]
    /\ UNCHANGED <<ev, astro, db, rl, track>>

BonusNext == GenerateWithBonus \/ GenReturn

(***************************************************************************)
(* HISTORICAL PROFILE  (computeScores, src/lib/dashboard/audit-tests.ts    *)
(* lines 1721-1758, and buildMultiStrategyStats, src/unnamed/part_009)     *)
(*                                                                         *)
(* A draw is [drawAt, numbers]; a score is a fraction num / den.           *)
(***************************************************************************)

\* [...draws].sort((a, b) => b.drawAt.getTime() - a.drawAt.getTime())
RECURSIVE SortByDrawAtDesc(_)
SortByDrawAtDesc(draws) ==
    IF draws = <<>> THEN <<>>
    ELSE LET latest == CHOOSE i \in DOMAIN draws :
                           \A j \in DOMAIN draws :
                               \/ draws[i].drawAt > draws[j].drawAt
                               \/ (draws[i].drawAt = draws[j].drawAt /\ i <= j)
         IN  <<draws[latest]>>
                 \o SortByDrawAtDesc([k \in 1..(Len(draws) - 1) |->
                                         IF k < latest THEN draws[k] ELSE draws[k + 1]])

\* How often `number` occurs in a list of numbers.
Occurrences(numbers, number) == Cardinality({i \in DOMAIN numbers : numbers[i] = number})

\* counts.get(n) after the forEach.
RECURSIVE CountOf(_, _)
CountOf(sorted, n) ==
    IF sorted = <<>> THEN 0
    ELSE Occurrences(Head(sorted).numbers, n) + CountOf(Tail(sorted), n)

\* lastSeenIndex.get(n) after the forEach: the 0-based index of the first
\* draw of `sorted` that holds n, Null when none does.
LastSeenIndex(sorted, n) ==
    LET seen == {i \in DOMAIN sorted : Occurrences(sorted[i].numbers, n) > 0}
    IN  IF seen = {} THEN Null ELSE (CHOOSE i \in seen : \A j \in seen : i <= j) - 1

\* frequencyScore with rare numbers scored high.
frequencyScore_Rarity(count, totalDraws) ==
    IF totalDraws > 0 THEN [num |-> (totalDraws - count) * 10, den |-> totalDraws] ELSE Whole(0)

\* totalDraws > 0 ? (count / totalDraws) * 10 : 0
frequencyScore(count, totalDraws) ==
    IF totalDraws > 0 THEN [num |-> count * 10, den |-> totalDraws] ELSE Whole(0)

\* gapIndex === null ? 5 : (Math.min(gapIndex, maxGap) / maxGap) * 5
gapScore(gapIndex, maxGap) ==
    IF gapIndex = Null THEN Whole(5) ELSE [num |-> Min2(gapIndex, maxGap) * 5, den |-> maxGap]

\* frequencyScore + gapScore
AddScores(a, b) == [num |-> a.num * b.den + b.num * a.den, den |-> a.den * b.den]

\* The Map computeScores returns, each entry with the two terms of its sum;
\* getNumbers is draw => draw.numbers.
computeScores(draws, rangeMin, rangeMax) ==
    LET sorted == SortByDrawAtDesc(draws)
        totalDraws == Len(sorted)
        maxGap == IF totalDraws - 1 > 1 THEN totalDraws - 1 ELSE 1
    IN  [n \in rangeMin..rangeMax |->
            [count |-> CountOf(sorted, n),
             frequencyScore |-> frequencyScore(CountOf(sorted, n), totalDraws),
             gapScore |-> gapScore(LastSeenIndex(sorted, n), maxGap),
             score |-> AddScores(frequencyScore(CountOf(sorted, n), totalDraws),
                                 gapScore(LastSeenIndex(sorted, n), maxGap))]]

\* The frequency Map of buildMultiStrategyStats over the game's range.
MultiStrategyFrequency(draws, config) ==
    [n \in config.mainMin..config.mainMax |-> CountOf(SortByDrawAtDesc(draws), n)]

\* The windows profiled: up to MaxWindow draws listed oldest first, each of
\* at most two different numbers out of 1..MaxProfileNumber.
MaxWindow == 3
MaxProfileNumber == 2

ProfileDraws ==
    {<<>>} \cup {<<a>> : a \in 1..MaxProfileNumber}
           \cup {p \in (1..MaxProfileNumber) \X (1..MaxProfileNumber) : p[1] < p[2]}

RECURSIVE Windows(_)
Windows(size) ==
    IF size = 0 THEN {<<>>}
    ELSE {Append(w, [drawAt |-> size, numbers |-> numbers]) :
             w \in Windows(size - 1), numbers \in ProfileDraws}

\* The window with n added to the numbers of draw i.
WithOccurrence(window, i, n) ==
    [window EXCEPT ![i].numbers = Append(@, n)]

\* The profile of a window and of the window that differs from it only in
\* that n occurs in one more draw.
ComputeScores ==
    /\ gen.pc = "idle"
    /\ \E size \in 1..MaxWindow, n \in 1..MaxProfileNumber :
         \E window \in Windows(size), i \in 1..size :
           /\ Occurrences(window[i].numbers, n) = 0
           /\ gen' = [pc |-> "done", api |-> "computeScores", n |-> n,
                      first |-> window, second |-> WithOccurrence(window, i, n),
                      firstScores |-> computeScores(window, 1, MaxProfileNumber),
                      secondScores |-> computeScores(WithOccurrence(window, i, n), 1,
                                                     MaxProfileNumber),
                      firstFrequency |->
                          MultiStrategyFrequency(window, Config("window", 2, MaxProfileNumber, 0, 0)),
                      secondFrequency |->
                          MultiStrategyFrequency(WithOccurrence(window, i, n),
                                                 Config("window", 2, MaxProfileNumber, 0, 0))]
    /\ UNCHANGED <<ev, astro, db, rl, track>>

ProfileNext == ComputeScores \/ GenReturn

(***************************************************************************)
(* digitalRoot called on its own, as the audit does.                       *)
(***************************************************************************)

MaxRootInput == 200

DigitalRoot ==
    /\ gen.pc = "idle"
    /\ \E n \in 0..MaxRootInput :
         gen' = [pc |-> "done", api |-> "digitalRoot", n |-> n, result |-> digitalRoot(n)]
    /\ UNCHANGED <<ev, astro, db, rl, track>>

RootNext == DigitalRoot \/ GenReturn

GenInit ==
    ev = EvalIdle /\ astro = [pc |-> "idle"] /\ gen = GenIdle /\ db = DbEmpty /\ rl = RlUnused
    /\ track = TrackUnused

GenNext == GenerateNumbers \/ GenerateMultiStrategy \/ GenReturn

SpecGen == GenInit /\ [][GenNext]_vars

SpecBonus == GenInit /\ [][BonusNext]_vars

SpecDef == GenInit /\ [][DefNext]_vars

SpecRoot == GenInit /\ [][RootNext]_vars

SpecProfile == GenInit /\ [][ProfileNext]_vars

(***************************************************************************)
(* CLAIMS ABOUT THE PRIZE EVALUATOR  (checked under SpecEval)              *)
(***************************************************************************)

\* What the finished call was given, read off the inputs alone.
EvUser == parseNumbers(ev.candidateNumbers)
EvDraw == parseNumbers(ev.officialNumbers)
EvMainHits == Cardinality({i \in DOMAIN EvUser : EvUser[i] \in Range(EvDraw)})
EvBonusBall == IF ev.officialBonus.fmt = "null" THEN Null ELSE First(ev.officialBonus.toks)
EvGrandPick == IF ev.candidateBonus.fmt = "null" THEN Null ELSE First(ev.candidateBonus.toks)
EvDaily == ev.gameSlug = "daily-grand"
EvBonusHit == ~EvDaily /\ EvBonusBall # Null /\ EvBonusBall \in Range(EvUser)
EvGrandHit == EvDaily /\ EvBonusBall # Null /\ EvGrandPick = EvBonusBall
\* The rules of `rules` that fit the call's actual match counts, and among
\* them the first in table order.
EvFitting(rules) ==
    LET k == EvMainHits
        hit == IF EvDaily THEN EvGrandHit ELSE EvBonusHit
    IN  {i \in DOMAIN rules :
            /\ rules[i].matchMain = k
            /\ (IF EvDaily THEN rules[i].matchGrand ELSE rules[i].matchBonus) = hit}
EvFirstOf(S) == {i \in S : \A j \in S : i <= j}

C8_FallbackWhenNoLabelParses ==
    (/\ ev.pc = "done"
     /\ buildPrizeRules(ev.gameSlug, ev.prizeShares, ev.gameCost) = <<>>) =>
        /\ ~ev.out.isNull
        /\ ev.out = evaluatePrediction(ev.gameSlug, ev.candidateNumbers,
                        ev.candidateBonus, ev.officialNumbers, ev.officialBonus,
                        <<>>, ev.gameCost)

\* C9: in a same-drum game, for a draw whose bonus ball is not one of its
\* main numbers, matchCountBonus is 1 exactly when the bonus ball is one of
\* the candidate's main numbers and 0 otherwise, and main matches plus bonus
\* matches never exceed the number of candidate numbers.
C9_BonusMatchedFromMainNumbers ==
    (/\ ev.pc = "done" /\ ~ev.out.isNull /\ ~EvDaily
     /\ EvBonusBall \notin Range(EvDraw)) =>
        /\ ev.out.matchCountBonus =
              (IF EvBonusBall # Null /\ EvBonusBall \in Range(EvUser) THEN 1 ELSE 0)
        /\ ev.out.matchCountMain + ev.out.matchCountBonus <= Len(EvUser)

\* C9 witness: the bonus ball is one of the candidate's numbers, next to
\* main matches, and is counted once, as the bonus match.
C9_Witness ==
    /\ ev.pc = "done" /\ ~ev.out.isNull /\ ~EvDaily
    /\ EvBonusBall \in Range(EvUser) /\ EvBonusBall \notin Range(EvDraw)
    /\ ev.out.matchCountBonus = 1 /\ ev.out.matchCountMain >= 3

(***************************************************************************)
(* CLAIMS ABOUT THE ASTRONOMICAL CLOCK  (checked under SpecAstro)          *)
(***************************************************************************)

\* C4: getNextTithiChange(t0) and getNextNakshatraChange(t0) return a time
\* strictly after t0 at which the index differs from the index at t0.
C4_NextChangeIsLaterWithNewIndex ==
    (astro.pc = "done" /\ astro.outcome = "returned") =>
        /\ astro.result.ms8 > astro.start.ms8
        /\ IndexAt(astro.kind, astro.sky, astro.result) # astro.startIndex

\* C5: a coarse scan that completes its 48 hourly steps without seeing the
\* index change ends in an explicit error, never in a returned time.
C5_ExhaustedScanReportsError ==
    (astro.pc = "done" /\ ~astro.found) => astro.outcome = "error"

\* C6: for any timestamp, with phase angle and tropical longitude in
\* [0, 360), getTithi gives an index in 1..30, getNakshatra an index in
\* 1..27, and the sidereal longitude lies in [0, 360).
C6_IndicesInRange ==
    astro.pc = "read" =>
        /\ astro.tithi \in 1..30
        /\ astro.nakshatra \in 1..27
        /\ astro.longitude >= 0 /\ astro.longitude < Deg(360)

(***************************************************************************)
(* CLAIMS ABOUT THE GENERATORS  (checked under SpecGen)                    *)
(***************************************************************************)

GenReturned == gen.pc = "done" /\ ~gen.result.threw
GenConfig == GAME_CONFIGS(gen.gameSlug)
GenMain == gen.result.mainNumbers

C2_MainNumbersAscending ==
    GenReturned => \A i \in 1..(Len(GenMain) - 1) : GenMain[i] < GenMain[i + 1]

\* C10: the full-moon modifier of generateNumbers leaves no duplicate and no
\* out-of-range value, and when its ten attempts are used up without a
\* replacement for the largest number it reports applied = false with the
\* original number kept.
C10_ModifierValidAndHonest ==
    (GenReturned /\ gen.api = "generateNumbers" /\ gen.result.trace.isFullMoon) =>
        /\ Cardinality(Range(GenMain)) = Len(GenMain)
        /\ Range(GenMain) \subseteq GenConfig.mainMin..GenConfig.mainMax
        /\ (gen.result.modifierRepairSteps = 10 =>
                /\ gen.result.modifierApplied = FALSE
                /\ gen.result.modifierAfter = gen.result.modifierBefore
                /\ GenMain = gen.result.trace.picked)

\* The selection before the modifier and the numbers returned agree
\* everywhere but at the largest number.
ModifierChangedLargest ==
    /\ Len(GenMain) = Len(gen.result.trace.picked)
    /\ \A i \in 1..(Len(GenMain) - 1) : GenMain[i] = gen.result.trace.picked[i]
    /\ GenMain[Len(GenMain)] # gen.result.trace.picked[Len(GenMain)]

\* C28: when generateNumbers reports modifierApplied = true, modifierAfter
\* differs from modifierBefore and the main numbers differ from the selection
\* before the modifier in exactly the largest number; a result whose largest
\* number is unchanged is reported with modifierApplied = false.
C28_AppliedMeansChanged ==
    (GenReturned /\ gen.api = "generateNumbers") =>
        /\ gen.result.modifierApplied = TRUE =>
              /\ gen.result.modifierAfter # gen.result.modifierBefore
              /\ ModifierChangedLargest
        /\ GenMain[Len(GenMain)] = gen.result.trace.picked[Len(GenMain)] =>
              gen.result.modifierApplied = FALSE

(***************************************************************************)
(* CLAIMS ABOUT GAME DEFINITIONS  (checked under SpecDef)                  *)
(***************************************************************************)

DefOverfull ==
    /\ gen.pc = "done"
    /\ gen.definition.defined
    /\ gen.definition.config.mainCount
           > gen.definition.config.mainMax - gen.definition.config.mainMin + 1

\* C11: generation for a slug the table does not hold, and generation for a
\* definition whose mainCount exceeds the size of its range, both end in an
\* error and hand back no candidate.
C11_MisuseIsFatal ==
    (gen.pc = "done" /\ (~gen.definition.defined \/ DefOverfull)) => gen.result.threw

(***************************************************************************)
(* CLAIMS ABOUT RULE RESOLUTION  (checked under SpecEval)                  *)
(***************************************************************************)

EvalRules == ResolveRules(ev.gameSlug, ev.prizeShares, ev.gameCost)

\* C12: in every rule that rule resolution produces, from a dynamic list or
\* from the static table, a FREE PLAY tier is worth the game cost supplied,
\* and 0 when none is supplied; a lifetime tier has the value null and
\* keeps its text.
C12_FreePlayAndLifeValues ==
    ev.pc = "done" =>
        \A i \in DOMAIN EvalRules :
            /\ EvalRules[i].prizeText.free =>
                   EvalRules[i].prizeValue = (IF ev.gameCost # Undefined THEN ev.gameCost ELSE 0)
            /\ (EvalRules[i].prizeText.life /\ ~EvalRules[i].prizeText.free) =>
                   EvalRules[i].prizeValue = Null

(***************************************************************************)
(* CLAIMS ABOUT digitalRoot  (checked under SpecRoot)                      *)
(***************************************************************************)

RECURSIVE DigitSum(_)
DigitSum(n) == IF n < 10 THEN n ELSE (n % 10) + DigitSum(n \div 10)

\* The digits of n summed again and again until one digit is left.
RECURSIVE RepeatedDigitSum(_)
RepeatedDigitSum(n) == IF n < 10 THEN n ELSE RepeatedDigitSum(DigitSum(n))

\* C13: for n >= 1, digitalRoot(n) is the repeated digit sum of n and lies
\* in 1..9; digitalRoot(0) is 9.
C13_DigitalRoot ==
    (gen.pc = "done" /\ gen.api = "digitalRoot") =>
        /\ gen.n >= 1 => (gen.result = RepeatedDigitSum(gen.n) /\ gen.result \in 1..9)
        /\ gen.n = 0 => gen.result = 9

\* 99 -> 18 -> 9: two rounds of summing, and a multiple of 9.
C13_Witness ==
    /\ gen.pc = "done"
    /\ gen.api = "digitalRoot"
    /\ gen.n = 99
    /\ DigitSum(gen.n) = 18
    /\ gen.result = 9

(***************************************************************************)
(* CLAIMS ABOUT THE HISTORICAL PROFILE  (checked under SpecProfile)        *)
(***************************************************************************)

ProfileDone == gen.pc = "done" /\ gen.api = "computeScores"

\* C14: of two windows of the same size that differ only in that n occurs
\* in more draws of the second, the second gives n a frequency score that
\* is at least the one the first gives it.
C14_FrequencyMonotone ==
    ProfileDone =>
        /\ Len(gen.second) = Len(gen.first)
        /\ gen.secondScores[gen.n].count > gen.firstScores[gen.n].count
        /\ ~Above(gen.firstScores[gen.n].frequencyScore, gen.secondScores[gen.n].frequencyScore)
        /\ gen.secondFrequency[gen.n] >= gen.firstFrequency[gen.n]

\* n was already in an older draw and is added to the latest one: its
\* frequency score rises while its gap score, and here its total, falls.
C14_Witness ==
    /\ ProfileDone
    /\ gen.firstScores[gen.n].count = 1
    /\ gen.secondScores[gen.n].count = 2
    /\ Above(gen.secondScores[gen.n].frequencyScore, gen.firstScores[gen.n].frequencyScore)
    /\ Above(gen.firstScores[gen.n].score, gen.secondScores[gen.n].score)

(***************************************************************************)
(* CLAIMS ABOUT THE MATCHING ENGINE  (checked under SpecMatch)             *)
(***************************************************************************)

MatchDone == ev.pc = "done" /\ ev.api = "computeMatches"

\* The category with the words "+ Grand" taken off its end, if it ends so.
MatchBase ==
    LET c == ev.out.category
    IN  IF Len(c) >= 2 /\ SubSeq(c, Len(c) - 1, Len(c)) = <<"+", "Grand">>
        THEN SubSeq(c, 1, Len(c) - 2)
        ELSE c

\* C15: mainMatches counts the generated numbers found among the official
\* ones (0 for empty inputs); the category is 'No Match' for 0, '<k> Match'
\* for 1..3, contains 'Prize' for 4 and 5 and 'Jackpot' from 6 on, and ends
\* in ' + Grand' exactly when grandMatches > 0; grandMatches is non-zero
\* only when both bonus lists are given, and never together with
\* bonusMatches.
C15_ComputeMatches ==
    MatchDone =>
        /\ ev.out.mainMatches
               = Cardinality({i \in DOMAIN ev.generatedNumbers :
                                 \E j \in DOMAIN ev.officialNumbers :
                                     ev.officialNumbers[j] = ev.generatedNumbers[i]})
        /\ (ev.generatedNumbers = <<>> \/ ev.officialNumbers = <<>>) => ev.out.mainMatches = 0
        /\ ev.out.mainMatches = 0 => MatchBase = <<"No", "Match">>
        /\ ev.out.mainMatches \in 1..3 => MatchBase = <<ToString(ev.out.mainMatches), "Match">>
        /\ ev.out.mainMatches \in 4..5 => "Prize" \in Range(MatchBase)
        /\ ev.out.mainMatches >= 6 => "Jackpot" \in Range(MatchBase)
        /\ (MatchBase # ev.out.category) <=> (ev.out.grandMatches > 0)
        /\ ev.out.grandMatches > 0 => (ev.generatedBonus.given /\ ev.officialBonus.given)
        /\ ~(ev.out.bonusMatches > 0 /\ ev.out.grandMatches > 0)

\* Three main matches and the grand number: '3 Match + Grand'.
C15_Witness ==
    /\ MatchDone
    /\ ev.out.mainMatches = 3
    /\ ev.out.grandMatches = 1
    /\ ev.out.bonusMatches = 0
    /\ ev.out.category = <<"3", "Match", "+", "Grand">>

(***************************************************************************)
(* CLAIMS ABOUT DRAW INGESTION  (checked under SpecIngest)                 *)
(***************************************************************************)

\* The table the last ingestion wrote to.
IngestTable ==
    IF db.last.api = "ingestOfficialDraws" THEN db.officialDraw ELSE db.historicalDraw

\* The draws of the last ingestion whose game the database holds.
IngestKnown == {k \in DOMAIN db.last.draws : db.last.draws[k].gameSlug \in DbGames}

IngestSameKey(draw, row) == row.gameId = GameId(draw.gameSlug) /\ row.drawAt = draw.drawAt

\* C16: each table holds at most one draw per (game, drawAt), with the
\* numbers of the latest ingest for that key; an ingestion of draws that
\* are all stored already leaves the number of rows as it was and counts
\* every draw as inserted, none as skipped or as an error.
C16_IngestionIdempotent ==
    /\ \A table \in {db.historicalDraw, db.officialDraw} :
           \A i, j \in DOMAIN table :
               (table[i].gameId = table[j].gameId /\ table[i].drawAt = table[j].drawAt)
                   => i = j
    /\ \A k \in IngestKnown :
           (\A later \in IngestKnown :
                (later > k) =>
                    ~(/\ db.last.draws[later].gameSlug = db.last.draws[k].gameSlug
                      /\ db.last.draws[later].drawAt = db.last.draws[k].drawAt))
               => \E i \in DOMAIN IngestTable :
                      /\ IngestSameKey(db.last.draws[k], IngestTable[i])
                      /\ parseNumbers(IngestTable[i].numbers) = db.last.draws[k].numbers
    /\ \A i \in DOMAIN db.last.before :
           (\A k \in IngestKnown : ~IngestSameKey(db.last.draws[k], db.last.before[i]))
               => \E j \in DOMAIN IngestTable : IngestTable[j] = db.last.before[i]
    /\ (/\ db.last.draws # <<>>
        /\ \A k \in DOMAIN db.last.draws :
               /\ k \in IngestKnown
               /\ \E i \in DOMAIN db.last.before :
                      IngestSameKey(db.last.draws[k], db.last.before[i]))
           => /\ Len(IngestTable) = Len(db.last.before)
              /\ db.last.inserted = Len(db.last.draws)
              /\ db.last.skipped = 0
              /\ db.last.errors = <<>>

\* A stored draw is ingested again with other numbers, next to a stored draw
\* of another game: the row count stays and the row holds the new numbers.
C16_Witness ==
    /\ db.last.api = "ingestOfficialDraws"
    /\ db.last.draws = <<ParsedDraw("lotto-max", 1, <<3, 4>>, List(<<7>>), List(<<77>>))>>
    /\ Len(db.last.before) = 2
    /\ \E i \in DOMAIN db.last.before :
           /\ db.last.before[i].gameId = GameId("lotto-max")
           /\ db.last.before[i].drawAt = 1
           /\ parseNumbers(db.last.before[i].numbers) = <<1, 2>>
    /\ Len(db.officialDraw) = 2
    /\ \E i \in DOMAIN db.officialDraw :
           /\ db.officialDraw[i].gameId = GameId("lotto-max")
           /\ parseNumbers(db.officialDraw[i].numbers) = <<3, 4>>
    /\ db.last.inserted = 1

(***************************************************************************)
(* CLAIMS ABOUT RATE LIMITING  (checked under SpecLimit)                   *)
(***************************************************************************)

LimitReturned == { i \in Identifiers : rl.calls[i].pc = "returned" }

\* C17: checkRateLimit fails open. A call returns success = false only when
\* a limiter exists and its limit() completed and reported success = false;
\* without the Upstash configuration, after a failed construction, and when
\* limit() throws, every call returns success = true. The limiter's
\* construction is attempted at most once over all the calls.
C17_FailsOpen ==
    /\ \A i \in LimitReturned :
        /\ ~rl.calls[i].result.success =>
              rl.module.rateLimiter /\ rl.calls[i].limit = "denied"
        /\ (~rl.env.configured \/ rl.env.ctorThrows \/ rl.calls[i].limit = "threw") =>
              rl.calls[i].result.success
    /\ rl.module.constructions <= 1
    /\ ~rl.env.configured => rl.module.constructions = 0

\* With a limiter built once and every call allowed for made, one call
\* stands denied by the limiter and another was let through on a Redis error.
C17_Witness ==
    /\ rl.started = MaxCalls
    /\ rl.module.constructions = 1
    /\ \E i, j \in LimitReturned :
        /\ ~rl.calls[i].result.success
        /\ rl.calls[j].limit = "threw" /\ rl.calls[j].result.success

(***************************************************************************)
(* CLAIMS ABOUT THE STRATEGIES  (checked under SpecGen)                    *)
(***************************************************************************)

\* The k-th value the repair tries for `last`: its ones digit advanced k times.
RepairCandidate(last, k) == (last \div 10) * 10 + (((last % 10) + k) % 10)

\* The attempts, out of ten, whose value is in range and not among the other
\* numbers of the ascending selection.
RepairValid(selection, min, max) ==
    {k \in 1..10 :
        /\ RepairCandidate(selection[Len(selection)], k) \in min..max
        /\ RepairCandidate(selection[Len(selection)], k)
               \notin Range(SubSeq(selection, 1, Len(selection) - 1))}

\* The numbers after a repair that stops at the first valid attempt.
Repaired(selection, min, max) ==
    IF RepairValid(selection, min, max) = {} THEN Range(selection)
    ELSE Range(SubSeq(selection, 1, Len(selection) - 1))
             \cup {RepairCandidate(selection[Len(selection)],
                                   CHOOSE k \in RepairValid(selection, min, max) :
                                       \A j \in RepairValid(selection, min, max) : k <= j)}

GenHybrid == GenReturned /\ gen.api = "generateMultiStrategy" /\ gen.strategy = "HYBRID"

\* C18: on a local full-moon day both the digital-root strategy of
\* generateNumbers and the HYBRID strategy return their selection with the
\* largest number replaced by the first of up to ten ones-digit advances
\* that is in range and not a duplicate.
C18_SharedRepair ==
    /\ (GenReturned /\ gen.api = "generateNumbers" /\ gen.result.trace.isFullMoon) =>
           Range(GenMain) = Repaired(gen.result.trace.picked, GenConfig.mainMin,
                                     GenConfig.mainMax)
    /\ (GenHybrid /\ gen.result.isFullMoon) =>
           Range(GenMain) = Repaired(gen.result.trace.selection, GenConfig.mainMin,
                                     GenConfig.mainMax)

\* How many of the four lists voted on hold n.
HybridVotesFor(n) ==
    Cardinality({s \in DOMAIN gen.result.trace.proposals :
                    n \in Range(gen.result.trace.proposals[s])})

\* The draw that went with candidate n.
HybridDrawOf(n) ==
    LET votes == gen.result.trace.votes
    IN  votes[CHOOSE k \in DOMAIN votes : votes[k].n = n].r

HybridProposed == UNION {Range(gen.result.trace.proposals[s]) : s \in 1..4}

HybridSelected == Range(gen.result.trace.selection)

\* C19: before its full-moon step the HYBRID strategy has selected mainCount
\* numbers, each proposed by at least one of the four sub-strategies; no
\* number left out has more votes than a selected one, and among numbers of
\* equal votes the one with the larger seeded draw is selected, whatever the
\* numbers' values.
C19_ConsensusSelection ==
    GenHybrid =>
        /\ Cardinality(HybridSelected) = GenConfig.mainCount
        /\ HybridSelected \subseteq HybridProposed
        /\ \A n \in HybridSelected : HybridVotesFor(n) >= 1
        /\ \A n \in HybridSelected, m \in HybridProposed \ HybridSelected :
              /\ HybridVotesFor(m) <= HybridVotesFor(n)
              /\ HybridVotesFor(m) = HybridVotesFor(n) => HybridDrawOf(m) <= HybridDrawOf(n)

\* A tie decided against the smaller number: m with as many votes as the
\* selected n, a smaller value and a smaller draw, is left out.
C19_Witness ==
    /\ GenHybrid
    /\ \E n \in HybridSelected, m \in HybridProposed \ HybridSelected :
          /\ HybridVotesFor(m) = HybridVotesFor(n)
          /\ m < n
          /\ HybridDrawOf(m) < HybridDrawOf(n)
    /\ \E n \in HybridSelected : HybridVotesFor(n) >= 2

GenDelta == GenReturned /\ gen.api = "generateMultiStrategy" /\ gen.strategy = "DELTA"

\* C20: the DELTA strategy makes at most 50 attempts at a chain and returns
\* mainCount numbers in strictly ascending order.  They are a chain whose
\* first number is no more than a third of the range's width above mainMin
\* and whose consecutive differences are between 1 and 12, or, only after
\* 50 abandoned attempts, the seeded-random subset of the range.
C20_DeltaChainOrFallback ==
    GenDelta =>
        /\ gen.result.trace.attempts + (IF gen.result.trace.fallback THEN 0 ELSE 1) <= 50
        /\ Len(GenMain) = GenConfig.mainCount
        /\ \A i \in 1..(Len(GenMain) - 1) : GenMain[i] < GenMain[i + 1]
        /\ IF gen.result.trace.fallback
           THEN /\ gen.result.trace.attempts = 50
                /\ Range(GenMain) \subseteq GenConfig.mainMin..GenConfig.mainMax
           ELSE /\ 3 * (GenMain[1] - GenConfig.mainMin) <= GenConfig.mainMax - GenConfig.mainMin
                /\ \A i \in 1..(Len(GenMain) - 1) : GenMain[i + 1] - GenMain[i] \in 1..12

\* The fallback subset, returned after 50 abandoned attempts.
C20_Witness ==
    /\ GenDelta
    /\ gen.result.trace.fallback
    /\ gen.result.trace.attempts = 50
    /\ Len(GenMain) = GenConfig.mainCount

GenPoisson == GenReturned /\ gen.api = "generateMultiStrategy" /\ gen.strategy = "POISSON"

\* Twice the target sum: (mainMin + mainMax) / 2 for each of mainCount numbers.
PoissonTarget2 == (GenConfig.mainMin + GenConfig.mainMax) * GenConfig.mainCount

PoissonOdd(subset) == Cardinality({i \in DOMAIN subset : subset[i] % 2 = 1})

\* The sum is within 15% of the target; the odd count is within 1 of
\* mainCount / 2.
PoissonInBand(subset) ==
    /\ 200 * SumSeq(subset) >= 85 * PoissonTarget2
    /\ 200 * SumSeq(subset) <= 115 * PoissonTarget2

PoissonBalanced(subset) ==
    /\ 2 * PoissonOdd(subset) >= GenConfig.mainCount - 2
    /\ 2 * PoissonOdd(subset) <= GenConfig.mainCount + 2

PoissonScore(subset) ==
    (IF PoissonInBand(subset) THEN 10 ELSE 0) + (IF PoissonBalanced(subset) THEN 10 ELSE 0)

PoissonExamined == gen.result.trace.examined

PoissonInFloorBand(subset) ==
    /\ SumSeq(subset) >= (85 * PoissonTarget2) \div 200
    /\ SumSeq(subset) <= (115 * PoissonTarget2) \div 200

PoissonFloorBalanced(subset) == Abs(PoissonOdd(subset) - (GenConfig.mainCount \div 2)) <= 1

PoissonFloorScore(subset) ==
    (IF PoissonInFloorBand(subset) THEN 10 ELSE 0)
        + (IF PoissonFloorBalanced(subset) THEN 10 ELSE 0)

GenMarkov == GenReturned /\ gen.api = "generateMultiStrategy" /\ gen.strategy = "MARKOV"

\* ((nakshatraIndex * 2) mod rangeSize) + mainMin, rangeSize the distance
\* from mainMin to mainMax.
MarkovStart ==
    ((gen.result.nakshatraIndex * 2) % (GenConfig.mainMax - GenConfig.mainMin))
        + GenConfig.mainMin

MarkovSteps == gen.result.trace.steps

\* The numbers selected before step i.
MarkovBefore(i) == {MarkovStart} \cup {MarkovSteps[j].pick : j \in 1..(i - 1)}

GenOrdinaryDay == GenReturned /\ gen.api = "generateNumbers" /\ ~gen.result.trace.isFullMoon

GenRange == GenConfig.mainMin..GenConfig.mainMax

\* The base score of n: the profile's, 0 without an entry; without a profile
\* the seeded fill, 10 times the draw made for n.
GenBase(n) ==
    IF gen.historicalStats.present THEN ScoreOf(gen.historicalStats.mainScores, n)
    ELSE 10 * Draw(After(createSeededRandom(gen.seed), n - GenConfig.mainMin))

\* 10 for the anchor's root, 5 for a root next to it on the circle 1..9.
GenBias(n) ==
    LET away == (digitalRoot(n) - gen.result.digitalRoot + 9) % 9
    IN  IF away = 0 THEN Unit(10) ELSE IF away \in {1, 8} THEN Unit(5) ELSE 0

GenRank(n) == GenBase(n) + GenBias(n)

\* The numbers of `range` with at most `count` numbers, themselves included,
\* whose base score is not more than 10 below theirs: when `count` numbers
\* have base scores more than 10 above all others, these are they.
DominantIn(base, range, count) ==
    {n \in range : Cardinality({m \in range : base[m] + Unit(10) >= base[n]}) <= count}

GenDominant ==
    DominantIn([n \in GenRange |-> GenBase(n)], GenRange, GenConfig.mainCount)

\* Every number of `picked` is ranked before every other number of `range`.
RankedFirst(rank, picked, range) ==
    \A n \in picked, m \in range \ picked :
        rank[n] > rank[m] \/ (rank[n] = rank[m] /\ n < m)

\* C23: on a day that is not a full-moon day generateNumbers returns the
\* mainCount numbers of the range ranked highest by base score plus bias,
\* the smaller number first among equals; so mainCount numbers whose base
\* scores are more than 10 above all others are returned whatever the anchor.
C23_TopByScoreAndBias ==
    GenOrdinaryDay =>
        /\ Cardinality(Range(GenMain)) = GenConfig.mainCount
        /\ Range(GenMain) \subseteq GenRange
        /\ RankedFirst([n \in GenRange |-> GenRank(n)], Range(GenMain), GenRange)
        /\ Cardinality(GenDominant) = GenConfig.mainCount => Range(GenMain) = GenDominant

\* A profile whose favourites are returned although a number left out has
\* the anchor's root and a number returned has no bias.
C23_Witness ==
    /\ GenOrdinaryDay
    /\ gen.historicalStats.present
    /\ Range(GenMain) = GenDominant
    /\ \E n \in Range(GenMain), m \in GenRange \ Range(GenMain) :
          GenBias(n) = 0 /\ GenBias(m) = Unit(10)

(***************************************************************************)
(* CLAIMS ABOUT BONUS NUMBERS  (checked under SpecBonus)                   *)
(***************************************************************************)

BonusReturned == gen.pc = "done" /\ ~gen.result.threw

BonusConfig == gen.definition.config

\* C24: for a game definition with bonus numbers the result holds bonusCount
\* bonus numbers, pairwise distinct and within bonusMin..bonusMax, none of
\* them among the returned main numbers when the bonus comes from the same
\* drum; for a definition without bonus numbers the result has none.
C24_BonusNumbers ==
    BonusReturned =>
        IF BonusConfig.bonusCount > 0
        THEN /\ gen.result.hasBonus
             /\ Len(gen.result.bonusNumbers) = BonusConfig.bonusCount
             /\ Cardinality(Range(gen.result.bonusNumbers)) = BonusConfig.bonusCount
             /\ Range(gen.result.bonusNumbers) \subseteq BonusConfig.bonusMin..BonusConfig.bonusMax
             /\ BonusConfig.bonusFromSameDrum =>
                    Range(gen.result.bonusNumbers) \cap Range(gen.result.mainNumbers) = {}
        ELSE ~gen.result.hasBonus /\ gen.result.bonusNumbers = <<>>

\* A shared drum with no number to spare on a full-moon day: the modifier
\* has written a main number and the bonus numbers are the numbers left.
C24_Witness ==
    /\ BonusReturned
    /\ gen.api = "generateNumbers"
    /\ BonusConfig.bonusFromSameDrum
    /\ BonusConfig.mainCount + BonusConfig.bonusCount = BonusConfig.mainMax
    /\ gen.result.modifierApplied = TRUE
    /\ gen.result.modifierAfter # gen.result.modifierBefore
    /\ Range(gen.result.bonusNumbers) \cup Range(gen.result.mainNumbers)
           = BonusConfig.mainMin..BonusConfig.mainMax

(***************************************************************************)
(* CLAIMS ABOUT THE BINARY SEARCH  (checked under SpecAstro)               *)
(***************************************************************************)

\* The index at offset ms8 of the year of the search.
SearchIndexAt(ms8) == IndexAt(astro.kind, astro.sky, Date(astro.start.yr, ms8))

\* The widths of the interval: the scanned hour halved up to ten times.
BisectWidths == {StepMs8 \div (2 ^ k) : k \in 0..10}

\* C25: after the coarse scan has seen the index change within an hour, the
\* binary search keeps the original index at its lower bound and another
\* index at its upper bound, halves the hour at most ten times, and returns
\* its upper bound when the interval is at most 5 seconds wide: the instant
\* returned has another index than the original and lies at most 5
\* seconds after an instant that has the original index.
C25_BinarySearchBrackets ==
    /\ astro.pc = "bisect" =>
          /\ SearchIndexAt(astro.low) = astro.startIndex
          /\ SearchIndexAt(astro.high) # astro.startIndex
          /\ astro.high - astro.low \in BisectWidths
    /\ (astro.pc = "done" /\ astro.found) =>
          /\ astro.outcome = "returned"
          /\ astro.result = NewDate(Date(astro.start.yr, astro.high))
          /\ astro.high - astro.low <= Ms(PRECISION_MS)
          /\ SearchIndexAt(astro.result.ms8) # astro.startIndex
          /\ SearchIndexAt(astro.low) = astro.startIndex
          /\ astro.result.ms8 > astro.low
          /\ astro.result.ms8 - astro.low <= Ms(PRECISION_MS)

\* A search returned after both of its bounds have moved.
C25_Witness ==
    /\ astro.pc = "done" /\ astro.found
    /\ astro.low > astro.t1.ms8 - StepMs8
    /\ astro.high < astro.t1.ms8
    /\ astro.i > 0

(***************************************************************************)
(* CLAIMS ABOUT THE CANDIDATE SELECTION  (checked under SpecSelect)        *)
(***************************************************************************)

SelectDone == track.select.pc = "returned"

\* The candidates stored for the key of the call among the first n rows.
SelectKeyed(n, eligibleOnly) ==
    SelectWhere(SubSeq(track.candidate, 1, n), track.select.call.gameId,
                track.select.call.drawAt, track.select.call.strategy, eligibleOnly)

\* An eligible candidate was stored when the call began: the call returns the
\* most recently created of them, without a fallbackReason.
SelectEligibleFirst ==
    SelectKeyed(track.select.call.first, TRUE) # {} =>
        /\ track.select.result = Selected(TakeLatest(SelectKeyed(track.select.call.first, TRUE)))
        /\ \A i \in SelectKeyed(track.select.call.first, TRUE) :
              i <= track.select.result.candidateId

\* A fallbackReason comes only when no eligible candidate was stored when the
\* call began, with the most recently created candidate of the key.
SelectFallbackOnlyWithout ==
    track.select.result.fallbackReason # "none" =>
        /\ SelectKeyed(track.select.call.first, TRUE) = {}
        /\ track.select.result.candidateId
               = TakeLatest(SelectKeyed(track.select.call.second, FALSE))

\* null exactly when no candidate of the key is stored.
SelectNullExactly ==
    /\ track.select.result.isNull => SelectKeyed(track.select.call.second, FALSE) = {}
    /\ (SelectKeyed(Len(track.candidate), FALSE) = {}) => track.select.result.isNull

\* A result with a fallbackReason refers to an ineligible candidate.
SelectFallbackIneligible ==
    track.select.result.fallbackReason # "none" =>
        ~track.candidate[track.select.result.candidateId].eligible

\* C26: selectCandidateForEvaluation returns the most recently created
\* eligible candidate of the key when there is one, the most recently created
\* candidate with a fallbackReason only when there is no eligible one, and
\* null exactly when the key has no candidate; a result with a fallbackReason
\* refers to an ineligible candidate, also when candidates are created
\* between the two queries.
C26_SelectLatestEligible ==
    SelectDone =>
        /\ SelectEligibleFirst
        /\ SelectFallbackOnlyWithout
        /\ SelectNullExactly
        /\ SelectFallbackIneligible

\* The same without the last clause: what holds of the two queries as they
\* are.
SelectSequentialParts ==
    SelectDone =>
        /\ SelectEligibleFirst
        /\ SelectFallbackOnlyWithout
        /\ SelectNullExactly

(***************************************************************************)
(* CLAIMS ABOUT RESULT PROCESSING  (checked under SpecRefresh and          *)
(* SpecResult)                                                             *)
(***************************************************************************)

\* The Toronto dates of the draw and of the candidate of a stored evaluation.
EvaluationDrawDate(i) ==
    toTorontoDateString(db.officialDraw[track.evaluation[i].officialDrawId].drawAt)
EvaluationIntendedDate(i) ==
    toTorontoDateString(track.candidate[track.evaluation[i].candidateId].intendedDrawAt)

\* C27: every stored evaluation links a candidate to an official draw of the
\* Toronto date the candidate was intended for; a candidate intended for an
\* earlier draw is never evaluated against a later official draw.
C27_EvaluatedAgainstIntendedDraw ==
    \A i \in DOMAIN track.evaluation : EvaluationDrawDate(i) = EvaluationIntendedDate(i)

\* The evaluations evaluateCandidatesForDraw has just written are of the
\* date of its draw.
RefreshPairsByDate ==
    track.refresh.pc = "done" =>
        \A i \in DOMAIN track.evaluation :
            track.evaluation[i].officialDrawId = track.refresh.officialDrawId
                /\ track.evaluation[i].prizeValue # Null
            => EvaluationDrawDate(i) = EvaluationIntendedDate(i)

\* The evaluation records of a candidate.
EvaluationsOf(candidateId) ==
    {i \in DOMAIN track.evaluation : track.evaluation[i].candidateId = candidateId}

\* C30: with two requests to the scheduler result route in progress, no
\* candidate gets more than one evaluation record, and a candidate a request
\* has found unevaluated and is about to evaluate is still unevaluated: no
\* other request creates an evaluation for it in between.
C30_OneEvaluationPerCandidate ==
    /\ \A candidateId \in DOMAIN track.candidate :
          Cardinality(EvaluationsOf(candidateId)) <= 1
    /\ \A r \in Requests :
          track.request[r].pc = "evaluating" =>
              EvaluationsOf(Head(track.request[r].todo)) = {}

\* The first clause alone.
NoSecondEvaluation ==
    \A candidateId \in DOMAIN track.candidate :
        Cardinality(EvaluationsOf(candidateId)) <= 1

(***************************************************************************)
(* CLAIMS ABOUT THE STATIC PRIZE TABLES  (checked under SpecEval)          *)
(***************************************************************************)

\* The call evaluated had no prize shares (the static table applies) and
\* matched the bonus ball or the grand number.
StaticWithBonusMatch ==
    /\ ev.pc = "done"
    /\ ev.prizeShares = <<>>
    /\ ~ev.out.isNull
    /\ (ev.out.matchCountBonus > 0 \/ ev.out.matchCountGrand > 0)

\* The result for the same candidate and main numbers when the draw has no
\* bonus ball or grand number to match: the same main-match count without a
\* bonus or grand match.
WithoutBonusMatch ==
    evaluatePrediction(ev.gameSlug, ev.candidateNumbers, ev.candidateBonus,
                       ev.officialNumbers, NullString, <<>>, ev.gameCost)

\* C29: with the static prize tables, a main-match count that wins a tier
\* without a bonus or grand match also wins a tier with one.
C29_BonusNeverLosesTier ==
    (StaticWithBonusMatch /\ WithoutBonusMatch.category # NoCategory) =>
        ev.out.category # NoCategory

=============================================================================
